---- MODULE Spec2Model ----
(***************************************************************************)
(* Block-template assembly of ckb (miner/src/block_assembler.rs).          *)
(*                                                                         *)
(* The worker thread owns candidate_uncles, template_caches, work_id and   *)
(* last_uncles_updated_at; the chain state (tip, epoch, proposals, staging *)
(* transactions, last_txs_updated_at) and the wall clock are external and  *)
(* change through environment actions.  The worker handles a request in    *)
(* two steps, up to the release of the chain-state lock and from there to  *)
(* the reply; the other threads act between the two.                       *)
(*                                                                         *)
(* Hashes are small integers.  Option<T> is a sequence of length <= 1:     *)
(* None is <<>>, Some(v) is <<v>>.  Result<T, E> is a record with a field  *)
(* ok.  Decimal strings (to_string, format!) are sequences of digits.      *)
(***************************************************************************)
EXTENDS Integers, Sequences, FiniteSets, TLC

VARIABLES
    tip,                    \* chain state: hash of the tip header
    pool,                   \* chain state: staging txs, pending proposals, last_txs_updated_at
    clock,                  \* wall clock, unix_time_as_millis()
    candidate_uncles,       \* BlockAssembler.candidate_uncles, least recently used first
    last_uncles_updated_at, \* BlockAssembler.last_uncles_updated_at
    template_caches,        \* BlockAssembler.template_caches, least recently used first
    work_id,                \* BlockAssembler.work_id
    worker,                 \* state of the worker thread
    reply,                  \* what the last request was answered with, and what it read
    hist,                   \* history of the replies sent so far
    probe,                  \* the request in flight, or a function applied on its own
    steps,                  \* events so far
    chan                    \* the worker's channels and what went through them

vars == <<tip, pool, clock, candidate_uncles, last_uncles_updated_at,
          template_caches, work_id, worker, reply, hist, probe, steps, chan>>

----------------------------------------------------------------------------
(* Option, Result, numbers and strings                                     *)

None == <<>>

Some(v) == <<v>>

Min(a, b) == IF a <= b THEN a ELSE b

Max(a, b) == IF a >= b THEN a ELSE b

\* Option<T>::min under the derived ordering: None is below every Some.
OptionMin(a, b) ==
    IF a = None \/ b = None THEN None ELSE Some(Min(a[1], b[1]))

UnwrapOr(o, d) == IF Len(o) = 1 THEN o[1] ELSE d

\* let x = v in F(x), with v evaluated once.
Let(v, F(_)) == CHOOSE r \in {F(x) : x \in {v}} : TRUE

Ok(v) == [ok |-> TRUE, val |-> v]

Err(e) == [ok |-> FALSE, err |-> e]

RECURSIVE to_string(_)
\* u64::to_string / format!("{}", n): the decimal digits, most significant first.
to_string(n) ==
    IF n < 10 THEN <<n>> ELSE to_string(n \div 10) \o <<n % 10>>

RECURSIVE ParseInt(_)
\* str::parse::<u64> of a string of digits.
ParseInt(s) ==
    IF Len(s) = 0 THEN 0
    ELSE 10 * ParseInt(SubSeq(s, 1, Len(s) - 1)) + s[Len(s)]

RECURSIVE SumSeq(_)
SumSeq(s) == IF Len(s) = 0 THEN 0 ELSE s[1] + SumSeq(Tail(s))

Range(s) == {s[i] : i \in 1..Len(s)}

\* u64::saturating_sub
SaturatingSub(a, b) == IF a >= b THEN a - b ELSE 0

----------------------------------------------------------------------------
(* Capacity: an unsigned integer of fixed width with checked arithmetic.   *)
(* The width is scaled down from 64 bits.                                  *)

MaxCapacity == 65535

\* Capacity::safe_add
safe_add(a, b) ==
    Let(a + b, LAMBDA sum : IF sum > MaxCapacity THEN Err("Overflow") ELSE Ok(sum))

\* Capacity::safe_sub
safe_sub(a, b) == IF a < b THEN Err("Overflow") ELSE Ok(a - b)

----------------------------------------------------------------------------
(* Consensus parameters (Consensus is configuration; values scaled down).  *)

max_block_bytes == 12

max_block_proposals_limit == 2

block_version == 1

max_block_cycles == 10

max_uncles_num == 2

max_uncles_age == 2

\* Header::serialized_size(proof_size)
HeaderSize == 2

\* ProposalShortId::serialized_size()
ProposalShortIdSize == 1

MAX_CANDIDATE_UNCLES == 42

BLOCK_TEMPLATE_TIMEOUT == 3000

\* A template cache made one entry too wide.
TEMPLATE_CACHE_SIZE_wide == 10 + 1

TEMPLATE_CACHE_SIZE == 10

----------------------------------------------------------------------------
(* The blocks the chain store holds.  A header's hash identifies it: it is *)
(* the block's place in BlockOf.  Timestamps are ten times the height.     *)
(*                                                                         *)
(*   G(1) - block0_1(2) - block1_1(6) - block2_1(8)          epoch 0       *)
(*     |         \                         |  \                            *)
(*     |          \ - B2(7), embedding     |   \ - B4(13)                  *)
(*     |               block0_0(3)         |                               *)
(*     \ - block0_0(3), C1(4), D1(5),      block3_1(9) - block4_1(10)      *)
(*         X1(12), further children           \ - B5(11)    |   epoch 1    *)
(*                                               block5_1(14) - A7(15)     *)

NoHash == 0

\* The epochs of the test's consensus: genesis_epoch_ext of length 4, then the next.
Epochs ==
    << [number |-> 0, difficulty |-> 1, start_number |-> 0, length |-> 4,
        block_reward |-> 1000, remainder_reward |-> 2],
       [number |-> 1, difficulty |-> 2, start_number |-> 4, length |-> 4,
        block_reward |-> 500, remainder_reward |-> 1] >>

\* Consensus::genesis_block
genesis_block ==
    [number |-> 0, parent_hash |-> NoHash, epoch |-> 0, difficulty |-> 1,
     timestamp |-> 0, nonce |-> 0, uncles |-> <<>>, proposals |-> <<>>]

\* Block::header, with the hash the header is known by.
header_of(b, hash) ==
    [hash |-> hash, number |-> b.number, parent_hash |-> b.parent_hash,
     epoch |-> b.epoch, difficulty |-> b.difficulty, timestamp |-> b.timestamp]

\* tests::gen_block: the child of a header, ten later, with one proposal and no uncle.
gen_block(parent_header, nonce, epoch) ==
    [number |-> parent_header.number + 1, parent_hash |-> parent_header.hash,
     epoch |-> epoch.number, difficulty |-> epoch.difficulty,
     timestamp |-> parent_header.timestamp + 10, nonce |-> nonce,
     uncles |-> <<>>, proposals |-> <<71>>]

\* The four blocks of test_prepare_uncles.
block0_0 == gen_block(header_of(genesis_block, 1), 11, Epochs[1])

block0_1 == gen_block(header_of(genesis_block, 1), 10, Epochs[1])

block1_1 == gen_block(header_of(block0_1, 2), 10, Epochs[1])

block2_1 == gen_block(header_of(block1_1, 6), 10, Epochs[1])

\* The chain of epoch 1, on block2_1.
block3_1 == gen_block(header_of(block2_1, 8), 10, Epochs[2])

block4_1 == gen_block(header_of(block3_1, 9), 10, Epochs[2])

block5_1 == gen_block(header_of(block4_1, 10), 10, Epochs[2])

\* Further blocks at height 1, beyond the fifteen named ones.
Siblings == 44

\* Blocks other than the test's differ from gen_block's where EXCEPT says so.
BlockOf ==
    << genesis_block,                                            \*  1  G
       block0_1,                                                 \*  2
       block0_0,                                                 \*  3
       [gen_block(header_of(genesis_block, 1), 12, Epochs[1])
            EXCEPT !.proposals = <<>>],                          \*  4  C1
       gen_block(header_of(genesis_block, 1), 13, Epochs[1]),    \*  5  D1
       block1_1,                                                 \*  6
       [gen_block(header_of(block0_1, 2), 11, Epochs[1])
            EXCEPT !.uncles = <<3>>, !.proposals = <<>>],        \*  7  B2
       block2_1,                                                 \*  8
       block3_1,                                                 \*  9
       block4_1,                                                 \* 10
       gen_block(header_of(block3_1, 9), 11, Epochs[2]),         \* 11  B5
       [gen_block(header_of(genesis_block, 1), 14, Epochs[1])
            EXCEPT !.difficulty = 2, !.proposals = <<>>],        \* 12  X1
       gen_block(header_of(block2_1, 8), 11, Epochs[2]),         \* 13  B4
       block5_1,                                                 \* 14
       gen_block(header_of(block5_1, 14), 10, Epochs[2]) >>      \* 15  A7
    \o [i \in 1..Siblings |->
            [gen_block(header_of(genesis_block, 1), 14 + i, Epochs[1])
                 EXCEPT !.proposals = <<>>]]

Hashes == 1..Len(BlockOf)

\* ChainProvider::block: the block stored under a hash, if any.
block(hash) == IF hash \in Hashes THEN Some(BlockOf[hash]) ELSE None

\* ChainState::current_epoch_ext: the epoch of the tip.
current_epoch_ext(t) == Epochs[BlockOf[t].epoch + 1]

\* ChainProvider::next_epoch_ext: the next epoch when the header closes its epoch.
next_epoch_ext(last_epoch, header) ==
    IF header.number + 1 = last_epoch.start_number + last_epoch.length
       /\ last_epoch.number + 2 <= Len(Epochs)
    THEN Some(Epochs[last_epoch.number + 2])
    ELSE None

\* EpochExt::block_reward: the first remainder_reward blocks of an epoch get one more.
block_reward(epoch, number) ==
    IF number >= epoch.start_number
       /\ number < epoch.start_number + epoch.remainder_reward
    THEN safe_add(epoch.block_reward, 1)
    ELSE Ok(epoch.block_reward)

\* UncleBlock::serialized_size(proof_size)
UncleSize(u) == HeaderSize + Len(u.proposals) * ProposalShortIdSize

----------------------------------------------------------------------------
(* Transactions.  A transaction's hash identifies it.  101 and 102 are in  *)
(* the chain store; the others can be in the pool.                         *)

Cell(h, i) == [cell |-> Some([tx_hash |-> h, index |-> i])]

Tx(ins, outs) == [inputs |-> ins, outputs |-> outs]

TxHashes == 101..115

TxOf(h) ==
    CASE h = 101 -> Tx(<<>>, <<100, 40000, 25000>>)
      [] h = 102 -> Tx(<<>>, <<40000>>)
      [] h = 103 -> Tx(<<Cell(101, 0)>>, <<50, 40>>)               \* fee 10
      [] h = 104 -> Tx(<<Cell(103, 0)>>, <<30>>)                   \* spends 103
      [] h = 105 -> Tx(<<Cell(101, 0)>>, <<100>>)                  \* fee 0
      [] h = 106 -> Tx(<<Cell(101, 0)>>, <<101>>)                  \* outputs > inputs
      [] h = 107 -> Tx(<<Cell(199, 0)>>, <<1>>)                    \* unknown transaction
      [] h = 108 -> Tx(<<Cell(103, 2)>>, <<1>>)                    \* index past the outputs
      [] h = 109 -> Tx(<<[cell |-> None]>>, <<>>)                        \* not a cell
      [] h = 110 -> Tx(<<Cell(101, 1), Cell(102, 0)>>, <<5>>)      \* inputs overflow
      [] h = 111 -> Tx(<<Cell(101, 1)>>, <<40000, 40000>>)         \* outputs overflow
      [] h = 112 -> Tx(<<Cell(101, 1), Cell(102, 0), Cell(199, 0)>>, <<5>>)
      [] h = 113 -> Tx(<<Cell(101, 1)>>, <<5>>)                    \* fee 39995
      [] h = 114 -> Tx(<<Cell(102, 0)>>, <<5>>)                    \* fee 39995
      [] h = 115 -> Tx(<<Cell(101, 1), Cell(101, 2)>>, <<5>>)      \* fee 64995

Committed == {101, 102}

\* ChainProvider::get_transaction
get_transaction(h) == IF h \in Committed THEN Some(TxOf(h)) ELSE None

\* PoolEntry: the transaction, its cycles and its serialized size.
PoolEntry(h) ==
    [transaction |-> h, cycles |-> Some(3), size |-> IF h = 104 THEN 1 ELSE 2]

----------------------------------------------------------------------------
(* LruCache (lru-cache crate): a sequence of [key, val] records, the least *)
(* recently used first.                                                    *)

Keys(cache) == {cache[i].key : i \in 1..Len(cache)}

IndexOf(cache, k) == CHOOSE i \in 1..Len(cache) : cache[i].key = k

Without(cache, k) == SelectSeq(cache, LAMBDA e : e.key # k)

\* LruCache::get: the value, and the cache with the entry made most recent.
LruGet(cache, k) ==
    IF k \in Keys(cache)
    THEN Let(cache[IndexOf(cache, k)], LAMBDA e :
             [found |-> Some(e.val), cache |-> Append(Without(cache, k), e)])
    ELSE [found |-> None, cache |-> cache]

\* LruCache::insert: insert or replace as most recent, then drop the oldest
\* entry when over capacity.
LruInsert(cache, k, v, capacity) ==
    Let(Append(Without(cache, k), [key |-> k, val |-> v]), LAMBDA put :
        IF Len(put) > capacity THEN Tail(put) ELSE put)

\* LruCache::remove
LruRemove(cache, k) == Without(cache, k)

----------------------------------------------------------------------------
(* TemplateCache::is_outdate                                               *)

\* is_outdate with the timeout reached one millisecond early.
is_outdate_early(self, uncles_updated_at, txs_updated_at, current_time, number) ==
    \/ uncles_updated_at # self.uncles_updated_at
    \/ /\ txs_updated_at # self.txs_updated_at
       /\ SaturatingSub(current_time, self.time) >= BLOCK_TEMPLATE_TIMEOUT
    \/ number # self.template.number

\* is_outdate with the timeout applied whatever the watermark of the pool.
is_outdate_either(self, uncles_updated_at, txs_updated_at, current_time, number) ==
    \/ uncles_updated_at # self.uncles_updated_at
    \/ txs_updated_at # self.txs_updated_at
    \/ SaturatingSub(current_time, self.time) > BLOCK_TEMPLATE_TIMEOUT
    \/ number # self.template.number

\* The validity rule that forgets the age of an entry.
is_outdate_ageless(self, uncles_updated_at, txs_updated_at, current_time, number) ==
    \/ uncles_updated_at # self.uncles_updated_at
    \/ number # self.template.number

is_outdate(self, uncles_updated_at, txs_updated_at, current_time, number) ==
    \/ uncles_updated_at # self.uncles_updated_at
    \/ /\ txs_updated_at # self.txs_updated_at
       /\ SaturatingSub(current_time, self.time) > BLOCK_TEMPLATE_TIMEOUT
    \/ number # self.template.number

----------------------------------------------------------------------------
(* FeeCalculator over the slice txs of pool entries.                       *)

\* FeeCalculator::new: tx hash -> position; a later entry of the same hash wins.
txs_map(txs) ==
    [h \in {txs[i].transaction : i \in 1..Len(txs)} |->
        CHOOSE i \in 1..Len(txs) :
            /\ txs[i].transaction = h
            /\ \A j \in (i + 1)..Len(txs) : txs[j].transaction # h]

\* Vec::get(index).map(|output| output.capacity), index counted from 0.
OutputCapacity(tx, index) ==
    IF index < Len(tx.outputs) THEN Some(tx.outputs[index + 1]) ELSE None

\* The lookup that turns to the provider when the batch transaction has no output
\* at the index.
get_capacity_falling_back(txs, out_point) ==
    IF out_point.cell = None THEN [capacity |-> None, provider |-> {}]
    ELSE Let(out_point.cell[1], LAMBDA cell_out_point :
         Let(txs_map(txs), LAMBDA map :
         Let(IF cell_out_point.tx_hash \in DOMAIN map
             THEN OutputCapacity(TxOf(txs[map[cell_out_point.tx_hash]].transaction),
                                 cell_out_point.index)
             ELSE None, LAMBDA batch :
             IF batch # None THEN [capacity |-> batch, provider |-> {}]
             ELSE Let(get_transaction(cell_out_point.tx_hash), LAMBDA found :
                      [capacity |-> IF found = None THEN None
                                    ELSE OutputCapacity(found[1], cell_out_point.index),
                       provider |-> {cell_out_point.tx_hash}]))))

\* FeeCalculator::get_capacity: the capacity, and the hashes it asks the provider
\* for (map_or_else: the provider in the closure of a miss only).
get_capacity_lookup(txs, out_point) ==
    IF out_point.cell = None THEN [capacity |-> None, provider |-> {}]
    ELSE Let(out_point.cell[1], LAMBDA cell_out_point :
         Let(txs_map(txs), LAMBDA map :
             IF cell_out_point.tx_hash \in DOMAIN map
             THEN [capacity |->
                       OutputCapacity(TxOf(txs[map[cell_out_point.tx_hash]].transaction),
                                      cell_out_point.index),
                   provider |-> {}]
             ELSE Let(get_transaction(cell_out_point.tx_hash), LAMBDA found :
                      [capacity |-> IF found = None THEN None
                                    ELSE OutputCapacity(found[1], cell_out_point.index),
                       provider |-> {cell_out_point.tx_hash}])))

\* FeeCalculator::get_capacity
get_capacity(txs, out_point) == get_capacity_lookup(txs, out_point).capacity

RECURSIVE provider_lookups(_, _, _, _)
\* The hashes the provider is asked for in the loop over transaction.inputs() of
\* calculate_transaction_fee.
provider_lookups(txs, inputs, i, fee) ==
    IF i > Len(inputs) THEN {}
    ELSE Let(get_capacity_lookup(txs, inputs[i]), LAMBDA l :
             l.provider \cup
             (IF l.capacity = None THEN {}
              ELSE Let(safe_add(fee, l.capacity[1]), LAMBDA sum :
                       IF sum.ok THEN provider_lookups(txs, inputs, i + 1, sum.val)
                       ELSE {})))

RECURSIVE SumInputs(_, _, _, _)
\* The loop over transaction.inputs() of calculate_transaction_fee.
SumInputs(txs, inputs, i, fee) ==
    IF i > Len(inputs) THEN Ok(fee)
    ELSE Let(get_capacity(txs, inputs[i]), LAMBDA capacity :
             IF capacity = None THEN Err("InvalidInput")
             ELSE Let(safe_add(fee, capacity[1]), LAMBDA sum :
                      IF sum.ok THEN SumInputs(txs, inputs, i + 1, sum.val) ELSE sum))

RECURSIVE SumOutputs(_, _, _)
\* try_fold(Capacity::zero(), Capacity::safe_add) over the output capacities.
SumOutputs(outputs, i, acc) ==
    IF i > Len(outputs) THEN Ok(acc)
    ELSE Let(safe_add(acc, outputs[i]), LAMBDA sum :
             IF sum.ok THEN SumOutputs(outputs, i + 1, sum.val) ELSE sum)

\* The fee calculation refusing a transaction that spends all it consumes.
calculate_transaction_fee_strict(txs, transaction) ==
    Let(SumInputs(txs, transaction.inputs, 1, 0), LAMBDA fee :
        IF ~fee.ok THEN fee
        ELSE Let(SumOutputs(transaction.outputs, 1, 0), LAMBDA spent_capacity :
                 IF ~spent_capacity.ok THEN spent_capacity
                 ELSE IF spent_capacity.val >= fee.val THEN Err("InvalidOutput")
                 ELSE safe_sub(fee.val, spent_capacity.val)))

\* FeeCalculator::calculate_transaction_fee
calculate_transaction_fee(txs, transaction) ==
    Let(SumInputs(txs, transaction.inputs, 1, 0), LAMBDA fee :
        IF ~fee.ok THEN fee
        ELSE Let(SumOutputs(transaction.outputs, 1, 0), LAMBDA spent_capacity :
                 IF ~spent_capacity.ok THEN spent_capacity
                 ELSE IF spent_capacity.val > fee.val THEN Err("InvalidOutput")
                 ELSE safe_sub(fee.val, spent_capacity.val)))
----------------------------------------------------------------------------
(* BlockAssembler: the functions of a build.                               *)

\* ChainState::tip_header, Block::header of a stored block.
HeaderOf(h) == header_of(BlockOf[h], h)

\* The parameters taken as given, the consensus values only where none is given.
transform_params_unclamped(bytes_limit, proposals_limit, max_version) ==
    << UnwrapOr(bytes_limit, max_block_bytes),
       UnwrapOr(proposals_limit, max_block_proposals_limit),
       UnwrapOr(max_version, block_version) >>

\* BlockAssembler::transform_params
transform_params(bytes_limit, proposals_limit, max_version) ==
    << UnwrapOr(OptionMin(bytes_limit, Some(max_block_bytes)), max_block_bytes),
       UnwrapOr(OptionMin(proposals_limit, Some(max_block_proposals_limit)),
                max_block_proposals_limit),
       UnwrapOr(OptionMin(max_version, Some(block_version)), block_version) >>

\* The key of template_caches.get and template_caches.insert.
CacheKey(cycles_limit, bytes_limit, proposals_limit, version) ==
    <<cycles_limit, bytes_limit, version>>

\* BlockAssembler::transform_uncle
transform_uncle(uncle) ==
    [hash |-> uncle.header.hash, required |-> FALSE,
     proposals |-> uncle.proposals, header |-> uncle.header]

\* BlockAssembler::transform_cellbase
transform_cellbase(tx, cycles) ==
    [hash |-> <<"cellbase", tx.inputs[1].cellbase, tx.outputs[1].capacity>>,
     cycles |-> IF cycles = None THEN None ELSE Some(to_string(cycles[1])),
     data |-> tx]

\* BlockAssembler::transform_tx
transform_tx(tx, required, depends) ==
    [hash |-> tx.transaction, required |-> required,
     cycles |-> IF tx.cycles = None THEN None ELSE Some(to_string(tx.cycles[1])),
     depends |-> depends, data |-> TxOf(tx.transaction)]

\* The sum calculate_txs_size_limit calls occupied.
Occupied(uncles, proposals) ==
    HeaderSize
    + SumSeq([i \in 1..Len(uncles) |-> UncleSize(uncles[i])])
    + Len(proposals) * ProposalShortIdSize

\* The budget computed without the room the proposals take.
calculate_txs_size_limit_no_proposals(bytes_limit, uncles, proposals) ==
    Let(Occupied(uncles, <<>>), LAMBDA occupied :
        IF bytes_limit > occupied
        THEN Ok(bytes_limit - occupied)
        ELSE Err("panic: block size limit is too small"))

\* BlockAssembler::calculate_txs_size_limit: the assertion fails (a panic) when
\* bytes_limit is not above occupied.
calculate_txs_size_limit(bytes_limit, uncles, proposals) ==
    Let(Occupied(uncles, proposals), LAMBDA occupied :
        IF bytes_limit > occupied
        THEN Ok(bytes_limit - occupied)
        ELSE Err("panic: block size limit is too small"))

RECURSIVE SumFees_wrapping(_, _, _)
\* The loop adding the fees modulo the width of a capacity.
SumFees_wrapping(pes, i, fee) ==
    IF i > Len(pes) THEN Ok(fee)
    ELSE Let(calculate_transaction_fee(pes, TxOf(pes[i].transaction)), LAMBDA one :
             IF ~one.ok THEN one
             ELSE SumFees_wrapping(pes, i + 1, (fee + one.val) % (MaxCapacity + 1)))

RECURSIVE SumFees(_, _, _)
\* The loop over pes of create_cellbase_transaction.
SumFees(pes, i, fee) ==
    IF i > Len(pes) THEN Ok(fee)
    ELSE Let(calculate_transaction_fee(pes, TxOf(pes[i].transaction)), LAMBDA one :
             IF ~one.ok THEN one
             ELSE Let(safe_add(fee, one.val), LAMBDA sum :
                      IF sum.ok THEN SumFees(pes, i + 1, sum.val) ELSE sum))

\* The cellbase paying the block reward alone.
create_cellbase_transaction_reward_only(tip_header, current_epoch, pes, lock) ==
    Let(block_reward(current_epoch, tip_header.number + 1), LAMBDA reward :
        IF ~reward.ok THEN reward
        ELSE Let(SumFees(pes, 1, 0), LAMBDA fee :
                 IF ~fee.ok THEN fee
                 ELSE Ok([inputs |-> <<[cellbase |-> tip_header.number + 1]>>,
                          outputs |-> <<[capacity |-> reward.val,
                                         data |-> <<>>,
                                         lock |-> lock,
                                         type |-> None]>>])))

\* BlockAssembler::create_cellbase_transaction
create_cellbase_transaction(tip_header, current_epoch, pes, lock) ==
    Let(block_reward(current_epoch, tip_header.number + 1), LAMBDA reward :
        IF ~reward.ok THEN reward
        ELSE Let(SumFees(pes, 1, 0), LAMBDA fee :
                 IF ~fee.ok THEN fee
                 ELSE Let(safe_add(reward.val, fee.val), LAMBDA capacity :
                          IF ~capacity.ok THEN capacity
                          ELSE Ok([inputs |-> <<[cellbase |-> tip_header.number + 1]>>,
                                   outputs |-> <<[capacity |-> capacity.val,
                                                  data |-> <<>>,
                                                  lock |-> lock,
                                                  type |-> None]>>]))))

RECURSIVE ExcludedWalk(_, _, _)
\* The exclusion walk of prepare_uncles: at most max_uncles_age blocks from the tip.
ExcludedWalk(block_hash, depth, excluded) ==
    IF depth >= max_uncles_age THEN excluded
    ELSE Let(block(block_hash), LAMBDA found :
             IF found = None THEN excluded
             ELSE Let(excluded \cup {found[1].parent_hash} \cup Range(found[1].uncles),
                      LAMBDA more :
                          ExcludedWalk(found[1].parent_hash, depth + 1, more)))

Excluded(tip_header) == ExcludedWalk(tip_header.hash, 0, {tip_header.hash})

\* The selection that never looks at the exclusion set.
Eligible_unexcluded(number, current_epoch, excluded, included, hash) ==
    Let(BlockOf[hash], LAMBDA cand :
    Let(SaturatingSub(number, cand.number), LAMBDA depth :
        /\ cand.difficulty = current_epoch.difficulty
        /\ cand.epoch = current_epoch.number
        /\ ~ \/ depth > max_uncles_age
             \/ depth < 1
             \/ hash \in included))

\* The selection that takes a candidate at depth max_uncles_age for too old.
Eligible_shallow(number, current_epoch, excluded, included, hash) ==
    Let(BlockOf[hash], LAMBDA cand :
    Let(SaturatingSub(number, cand.number), LAMBDA depth :
        /\ cand.difficulty = current_epoch.difficulty
        /\ cand.epoch = current_epoch.number
        /\ ~ \/ depth >= max_uncles_age
             \/ depth < 1
             \/ hash \in included
             \/ hash \in excluded))

\* The selection that takes a candidate one block too old.
Eligible_deep(number, current_epoch, excluded, included, hash) ==
    Let(BlockOf[hash], LAMBDA cand :
    Let(SaturatingSub(number, cand.number), LAMBDA depth :
        /\ cand.difficulty = current_epoch.difficulty
        /\ cand.epoch = current_epoch.number
        /\ ~ \/ depth > max_uncles_age + 1
             \/ depth < 1
             \/ hash \in included
             \/ hash \in excluded))

\* Whether the selection loop of prepare_uncles takes a candidate.
Eligible(number, current_epoch, excluded, included, hash) ==
    Let(BlockOf[hash], LAMBDA cand :
    Let(SaturatingSub(number, cand.number), LAMBDA depth :
        /\ cand.difficulty = current_epoch.difficulty
        /\ cand.epoch = current_epoch.number
        /\ ~ \/ depth > max_uncles_age
             \/ depth < 1
             \/ hash \in included
             \/ hash \in excluded))

RECURSIVE SelectUncles_exhaustive(_, _, _, _, _, _, _)
\* The selection loop that goes on past max_uncles_num uncles, classifying the
\* candidates left without taking any.
SelectUncles_exhaustive(number, current_epoch, excluded, candidates, i, uncles, bad_uncles) ==
    IF i > Len(candidates)
    THEN [uncles |-> uncles, bad_uncles |-> bad_uncles]
    ELSE Let(candidates[i], LAMBDA c :
         Let(IF Eligible(number, current_epoch, excluded,
                         {uncles[j].header.hash : j \in 1..Len(uncles)}, c.key)
             THEN <<IF Len(uncles) = max_uncles_num THEN uncles
                    ELSE Append(uncles, [header |-> HeaderOf(c.val),
                                         proposals |-> BlockOf[c.val].proposals]),
                    bad_uncles>>
             ELSE <<uncles, Append(bad_uncles, c.key)>>,
             LAMBDA next :
                 SelectUncles_exhaustive(number, current_epoch, excluded, candidates,
                                         i + 1, next[1], next[2])))

RECURSIVE SelectUncles(_, _, _, _, _, _, _)
\* The selection loop of prepare_uncles over candidate_uncles.iter().
SelectUncles(number, current_epoch, excluded, candidates, i, uncles, bad_uncles) ==
    IF i > Len(candidates) \/ Len(uncles) = max_uncles_num
    THEN [uncles |-> uncles, bad_uncles |-> bad_uncles]
    ELSE Let(candidates[i], LAMBDA c :
         Let(IF Eligible(number, current_epoch, excluded,
                         {uncles[j].header.hash : j \in 1..Len(uncles)}, c.key)
             THEN <<Append(uncles, [header |-> HeaderOf(c.val),
                                    proposals |-> BlockOf[c.val].proposals]),
                    bad_uncles>>
             ELSE <<uncles, Append(bad_uncles, c.key)>>,
             LAMBDA next :
                 SelectUncles(number, current_epoch, excluded, candidates, i + 1,
                              next[1], next[2])))

\* BlockAssembler::prepare_uncles
prepare_uncles(tip_header, current_epoch, candidates) ==
    Let(Excluded(tip_header), LAMBDA excluded :
        SelectUncles(tip_header.number + 1, current_epoch, excluded,
                     candidates, 1, <<>>, <<>>))

\* ChainState::get_proposals: at most limit of the pending proposal ids.
get_proposals(pending, limit) == SubSeq(pending, 1, Min(limit, Len(pending)))

RECURSIVE FitPrefix(_, _, _, _)
FitPrefix(txs, i, size_limit, cycles_limit) ==
    IF i > Len(txs) THEN <<>>
    ELSE Let(PoolEntry(txs[i]), LAMBDA e :
             IF e.size > size_limit \/ UnwrapOr(e.cycles, 0) > cycles_limit
             THEN <<>>
             ELSE Let(<<size_limit - e.size, cycles_limit - UnwrapOr(e.cycles, 0)>>,
                      LAMBDA left : <<e>> \o FitPrefix(txs, i + 1, left[1], left[2])))

\* ChainState::get_staging_txs: the staging entries, in order, that fit both budgets.
get_staging_txs(staging, txs_size_limit, cycles_limit) ==
    FitPrefix(staging, 1, txs_size_limit, cycles_limit)

\* The lock script of the cellbase output, from the configuration.
CellbaseLock == [args |-> <<>>, code_hash |-> 0]

----------------------------------------------------------------------------
(* BlockAssembler::get_block_template: what it reads and gathers while it  *)
(* holds the chain-state lock, and what it builds once the lock is         *)
(* released, as a function of later, the wall clock when the cellbase has  *)
(* been built.                                                             *)

\* The counter left as it was.
fetch_add_lost(w) == w

\* The counter stepped the wrong way.
fetch_add_down(w) == w - 1

\* AtomicUsize::fetch_add(1): the new value of the counter.
fetch_add(w) == w + 1

\* What the request reads before it looks into the cache.
Snapshot(bytes_limit, proposals_limit, max_version) ==
    Let(transform_params(bytes_limit, proposals_limit, max_version), LAMBDA params :
    Let(HeaderOf(tip), LAMBDA header :
        [cycles_limit |-> max_block_cycles,
         bytes_limit |-> params[1],
         proposals_limit |-> params[2],
         version |-> params[3],
         uncles_count_limit |-> max_uncles_num,
         last_uncles_updated_at |-> last_uncles_updated_at,
         last_txs_updated_at |-> pool.updated_at,
         header |-> header,
         number |-> header.number + 1,
         current_time |-> Max(clock, header.timestamp + 1),
         key |-> CacheKey(max_block_cycles, params[1], params[2], params[3])]))

\* Whether the entry found at the key, if any, answers the request.
CacheHit(snap, found) ==
    /\ found # None
    /\ ~is_outdate(found[1], snap.last_uncles_updated_at, snap.last_txs_updated_at,
                   snap.current_time, to_string(snap.number))

\* The epoch of the block to build.
CurrentEpoch(header) ==
    Let(current_epoch_ext(header.hash), LAMBDA last_epoch :
        UnwrapOr(next_epoch_ext(last_epoch, header), last_epoch))

\* The stamp taken from the sample made before the cache check.
current_time_first_sample(snap, later) == snap.current_time

\* Should recalculate current time after create cellbase (create cellbase may
\* spend a lot of time).
current_time_after_cellbase(snap, later) == Max(later, snap.header.timestamp + 1)

\* The template of a build and the cache entry made of it.
Assemble(snap, current_epoch, uncles, proposals, transactions, cellbase, later) ==
    Let(current_time_after_cellbase(snap, later), LAMBDA current_time :
        [time |-> current_time,
         uncles_updated_at |-> snap.last_uncles_updated_at,
         txs_updated_at |-> snap.last_txs_updated_at,
         template |->
            [version |-> snap.version,
             difficulty |-> current_epoch.difficulty,
             current_time |-> to_string(current_time),
             number |-> to_string(snap.number),
             epoch |-> to_string(current_epoch.number),
             parent_hash |-> snap.header.hash,
             cycles_limit |-> to_string(snap.cycles_limit),
             bytes_limit |-> to_string(snap.bytes_limit),
             uncles_count_limit |-> snap.uncles_count_limit,
             uncles |-> [i \in 1..Len(uncles) |-> transform_uncle(uncles[i])],
             transactions |->
                 [i \in 1..Len(transactions) |->
                     transform_tx(transactions[i], FALSE, None)],
             proposals |-> proposals,
             cellbase |-> transform_cellbase(cellbase, None),
             work_id |-> to_string(work_id)]])

\* The removal that stops after the first bad uncle.
remove_bad_first(candidates, bad_uncles) ==
    IF bad_uncles = <<>> THEN candidates ELSE LruRemove(candidates, bad_uncles[1])

\* for bad in bad_uncles { self.candidate_uncles.remove(&bad) }
remove_bad(candidates, bad_uncles) ==
    SelectSeq(candidates, LAMBDA e : e.key \notin Range(bad_uncles))

\* The build while the chain-state lock is held: the epoch, the uncles, the
\* candidate cache without the bad ones, the proposals, the size budget and the
\* staging transactions that fit it.
Gather(snap) ==
    Let(CurrentEpoch(snap.header), LAMBDA current_epoch :
    Let(prepare_uncles(snap.header, current_epoch, candidate_uncles), LAMBDA prepared :
    Let(get_proposals(pool.proposals, snap.proposals_limit), LAMBDA proposals :
    Let(calculate_txs_size_limit(snap.bytes_limit, prepared.uncles, proposals),
        LAMBDA txs_size_limit :
        [epoch |-> current_epoch, uncles |-> prepared.uncles,
         bad_uncles |-> prepared.bad_uncles, proposals |-> proposals,
         candidate_uncles |-> remove_bad(candidate_uncles, prepared.bad_uncles),
         txs_size_limit |-> txs_size_limit,
         transactions |->
             IF txs_size_limit.ok
             THEN get_staging_txs(pool.txs, txs_size_limit.val, snap.cycles_limit)
             ELSE <<>>]))))

\* What a build reports of the part done under the lock.
BuildBase(g) ==
    [epoch |-> g.epoch, uncles |-> g.uncles, bad_uncles |-> g.bad_uncles,
     proposals |-> g.proposals, candidate_uncles |-> g.candidate_uncles]

\* The build after the lock is released: the cellbase, the second reading of the
\* clock, the template and its cache entry.
Finish(snap, g, later) ==
    Let(create_cellbase_transaction(snap.header, g.epoch, g.transactions,
                                    CellbaseLock),
        LAMBDA cellbase :
        IF ~cellbase.ok
        THEN [kind |-> "error", result |-> cellbase,
              txs_size_limit |-> g.txs_size_limit.val,
              cycles_limit |-> snap.cycles_limit,
              transactions |-> g.transactions] @@ BuildBase(g)
        ELSE
    Let(Assemble(snap, g.epoch, g.uncles, g.proposals, g.transactions,
                 cellbase.val, later),
        LAMBDA entry :
            [kind |-> "fresh", result |-> Ok(entry.template),
             txs_size_limit |-> g.txs_size_limit.val,
             cycles_limit |-> snap.cycles_limit,
             transactions |-> g.transactions,
             work_id |-> fetch_add(work_id),
             entry |-> entry] @@ BuildBase(g)))

\* The build once the lock is released: the thread unwinds where the size budget
\* could not be computed, and finishes the template otherwise.
Build(snap, g, later) ==
    IF ~g.txs_size_limit.ok
    THEN [kind |-> "panic", result |-> g.txs_size_limit] @@ BuildBase(g)
    ELSE Finish(snap, g, later)

----------------------------------------------------------------------------
(* The service: the worker's two handlers, and the environment.            *)

\* The wall clock stops here.
MaxClock == 3021

\* The events of one run.
MaxSteps == 6

\* Tips the chain takes, uncles the network announces, pool contents, requests.
TipSet == {2, 3, 6}

UncleSet == {3}

PoolOptions ==
    { [txs |-> <<103, 104>>, proposals |-> <<71>>],
      [txs |-> <<106>>, proposals |-> <<>>] }

Requests ==
    { <<None, None, None>>,
      <<None, Some(0), None>>,
      <<Some(7), None, None>> }

TickSteps == {BLOCK_TEMPLATE_TIMEOUT, BLOCK_TEMPLATE_TIMEOUT + 1}

NoReply ==
    [kind |-> "none", result |-> Err("none"), args |-> <<None, None, None>>,
     limits |-> <<0, 0, 0>>, tip |-> NoHash, pool |-> <<>>, number |-> 0,
     current_time |-> 0,
     last_uncles_updated_at |-> 0, last_txs_updated_at |-> 0,
     found |-> None, build |-> None, prev |-> None,
     template_caches_before |-> <<>>, candidate_uncles_before |-> <<>>,
     work_before |-> 0, work_after |-> 0,
     fresh_before |-> -1, replied_before |-> -1, replied_at_key_before |-> -1]

Idle == [fn |-> "none"]

\* No reply sent yet: the last Ok reply while nothing but time has passed, the
\* work_ids of the fresh builds, the (key, work_id) of the Ok replies, and the
\* work_ids built since the last uncle was taken, the (work_id, clamped limits)
\* of the fresh builds, and whether the tip or the pool's watermark has changed
\* since the worker took the request in flight.
NoHistory ==
    [last |-> None, fresh |-> {}, replied |-> {}, since_uncle |-> {}, built |-> {},
     changed |-> FALSE]

\* The channels at start: no shutdown token sent, nothing queued, no call made, no
\* reply sent, no request dequeued or discarded, no event handled past a token.
NoChannels ==
    [signal |-> 0, uncles |-> <<>>, uncles_open |-> TRUE, requests |-> <<>>,
     calls |-> 0, replies |-> <<>>, dequeued |-> {}, discarded |-> {},
     late |-> FALSE, requests_open |-> TRUE]

\* The entry stored under the key a request's clamped limits name, if any.
EntryAt(cache, cycles_limit, bytes_limit, version) ==
    Let({i \in 1..Len(cache) : cache[i].key = <<cycles_limit, bytes_limit, version>>},
        LAMBDA at : IF at = {} THEN None ELSE Some(cache[CHOOSE i \in at : TRUE].val))

MaxOf(S) == IF S = {} THEN -1 ELSE CHOOSE x \in S : \A y \in S : y <= x

Init ==
    /\ tip = 2
    /\ pool = [txs |-> <<103, 104>>, proposals |-> <<71>>, updated_at |-> 0]
    /\ clock = 20
    /\ candidate_uncles = <<>>
    /\ last_uncles_updated_at = 0
    /\ template_caches = <<>>
    /\ work_id = 0
    /\ worker = "Running"
    /\ reply = NoReply
    /\ hist = NoHistory
    /\ probe = Idle
    /\ steps = 0
    /\ chan = NoChannels

\* The wall clock advances.
Tick(d) ==
    /\ steps < MaxSteps
    /\ steps' = steps + 1
    /\ clock + d <= MaxClock
    /\ clock' = clock + d
    /\ reply' = NoReply
    /\ UNCHANGED <<tip, pool, candidate_uncles, last_uncles_updated_at,
                   template_caches, work_id, worker, hist, probe, chan>>

\* The chain takes another tip, at the same height or above.
SetTip(b) ==
    /\ steps < MaxSteps
    /\ steps' = steps + 1
    /\ b # tip
    /\ BlockOf[b].number >= BlockOf[tip].number
    /\ tip' = b
    /\ hist' = [hist EXCEPT !.last = None, !.changed = TRUE]
    /\ reply' = NoReply
    /\ UNCHANGED <<pool, clock, candidate_uncles, last_uncles_updated_at,
                   template_caches, work_id, worker, probe, chan>>

\* The pool changes: other staging transactions and proposals, stamped with the clock.
MempoolChange(o) ==
    /\ steps < MaxSteps
    /\ steps' = steps + 1
    /\ <<o.txs, o.proposals>> # <<pool.txs, pool.proposals>>
    /\ pool' = [txs |-> o.txs, proposals |-> o.proposals, updated_at |-> clock]
    /\ hist' = [hist EXCEPT !.last = IF pool.updated_at = clock THEN @ ELSE None,
                            !.changed = IF pool.updated_at = clock THEN @ ELSE TRUE]
    /\ reply' = NoReply
    /\ UNCHANGED <<tip, clock, candidate_uncles, last_uncles_updated_at,
                   template_caches, work_id, worker, probe, chan>>

\* The handler that leaves an uncle already in the cache where it is.
IngestUncle_in_place(b) ==
    /\ candidate_uncles' = IF b \in Keys(candidate_uncles) THEN candidate_uncles
                           ELSE LruInsert(candidate_uncles, b, b, MAX_CANDIDATE_UNCLES)
    /\ last_uncles_updated_at' = clock
    /\ hist' = [hist EXCEPT !.last = None, !.since_uncle = {}]
    /\ reply' = NoReply
    /\ UNCHANGED <<tip, pool, clock, template_caches, work_id, worker, probe>>

\* What the worker does with an uncle block received.
IngestUncle(b) ==
    /\ candidate_uncles' = LruInsert(candidate_uncles, b, b, MAX_CANDIDATE_UNCLES)
    /\ last_uncles_updated_at' = clock
    /\ hist' = [hist EXCEPT !.last = None, !.since_uncle = {}]
    /\ reply' = NoReply
    /\ UNCHANGED <<tip, pool, clock, template_caches, work_id, worker, probe>>

\* The worker takes an uncle from new_uncle_receiver.
NewUncle(b) ==
    /\ steps < MaxSteps
    /\ steps' = steps + 1
    /\ worker = "Running"
    /\ probe = Idle
    /\ IngestUncle(b)
    /\ UNCHANGED chan

\* The request the worker has in hand when it releases the chain-state lock: what
\* it read under the lock, the entry found at the key, what it gathered for a build
\* where that entry does not answer the request, and its caches as they were.
InFlight(bytes_limit, proposals_limit, max_version, id) ==
    Let(Snapshot(bytes_limit, proposals_limit, max_version), LAMBDA snap :
    Let(LruGet(template_caches, snap.key), LAMBDA got :
        [fn |-> "request", id |-> id,
         args |-> <<bytes_limit, proposals_limit, max_version>>,
         snap |-> snap, pool |-> pool.txs, found |-> got.found, cache |-> got.cache,
         gathered |-> IF CacheHit(snap, got.found) THEN None
                      ELSE Some(Gather(snap)),
         template_caches |-> template_caches,
         candidate_uncles |-> candidate_uncles]))

\* The worker takes a request: get_block_template up to the release of the
\* chain-state lock.  The entry at the key becomes the most recent one, and where
\* it does not answer the request the bad uncles leave the candidate cache.
Receive(bytes_limit, proposals_limit, max_version, id) ==
    /\ probe = Idle
    /\ \E request \in {InFlight(bytes_limit, proposals_limit, max_version, id)} :
           /\ probe' = request
           /\ template_caches' = request.cache
           /\ candidate_uncles' = IF request.gathered = None THEN candidate_uncles
                                  ELSE request.gathered[1].candidate_uncles
    /\ hist' = [hist EXCEPT !.changed = FALSE]
    /\ reply' = NoReply
    /\ UNCHANGED <<tip, pool, clock, last_uncles_updated_at, work_id, worker>>

\* The worker that stamps the template of a cache hit with the time of the request.
Handle_restamping(request, later) ==
    IF request.gathered = None
    THEN [kind |-> "hit",
          result |-> Ok([request.found[1].template EXCEPT
                            !.current_time = to_string(request.snap.current_time)]),
          template_caches |-> template_caches, work_id |-> work_id, build |-> None]
    ELSE Let(Build(request.snap, request.gathered[1], later), LAMBDA b :
             [kind |-> b.kind, result |-> b.result,
              template_caches |->
                  IF b.kind = "fresh"
                  THEN LruInsert(template_caches, request.snap.key, b.entry,
                                 TEMPLATE_CACHE_SIZE)
                  ELSE template_caches,
              work_id |-> IF b.kind = "fresh" THEN b.work_id ELSE work_id,
              build |-> Some(b)])

\* The request handled with the counter stepped by every build, failed ones too.
Handle_counting_failures(request, later) ==
    IF request.gathered = None
    THEN [kind |-> "hit", result |-> Ok(request.found[1].template),
          template_caches |-> template_caches, work_id |-> work_id, build |-> None]
    ELSE Let(Build(request.snap, request.gathered[1], later), LAMBDA b :
             [kind |-> b.kind, result |-> b.result,
              template_caches |->
                  IF b.kind = "fresh"
                  THEN LruInsert(template_caches, request.snap.key, b.entry,
                                 TEMPLATE_CACHE_SIZE)
                  ELSE template_caches,
              work_id |-> fetch_add(work_id),
              build |-> Some(b)])

\* What the worker does with the request in flight once the lock is released: the
\* answer, and the template cache and the counter it leaves.
Handle(request, later) ==
    IF request.gathered = None
    THEN [kind |-> "hit", result |-> Ok(request.found[1].template),
          template_caches |-> template_caches, work_id |-> work_id, build |-> None]
    ELSE Let(Build(request.snap, request.gathered[1], later), LAMBDA b :
             [kind |-> b.kind, result |-> b.result,
              template_caches |->
                  IF b.kind = "fresh"
                  THEN LruInsert(template_caches, request.snap.key, b.entry,
                                 TEMPLATE_CACHE_SIZE)
                  ELSE template_caches,
              work_id |-> IF b.kind = "fresh" THEN b.work_id ELSE work_id,
              build |-> Some(b)])

\* The worker answers the request in flight: get_block_template from the release of
\* the lock to its return, and the reply sent.  later is the wall clock when the
\* cellbase has been built.
Answer(later) ==
    /\ probe.fn = "request"
    /\ later <= MaxClock
    /\ \E request \in {probe} :
       \E h \in {Handle(request, later)} :
       \E snap \in {request.snap} :
       \E limits \in {<<snap.bytes_limit, snap.proposals_limit, snap.version>>} :
       \E key \in {<<snap.cycles_limit, snap.bytes_limit, snap.version>>} :
       \E id \in {IF h.result.ok THEN ParseInt(h.result.val.work_id) ELSE -1} :
           /\ template_caches' = h.template_caches
           /\ work_id' = h.work_id
           /\ worker' = IF h.kind = "panic" THEN "Panicked" ELSE worker
           /\ clock' = IF h.kind \in {"fresh", "error"} THEN later ELSE clock
           /\ reply' =
                  [kind |-> h.kind, result |-> h.result,
                   args |-> request.args,
                   limits |-> limits,
                   tip |-> snap.header.hash, pool |-> request.pool,
                   number |-> snap.number,
                   current_time |-> snap.current_time,
                   last_uncles_updated_at |-> snap.last_uncles_updated_at,
                   last_txs_updated_at |-> snap.last_txs_updated_at,
                   found |-> EntryAt(request.template_caches, snap.cycles_limit,
                                     snap.bytes_limit, snap.version),
                   build |-> h.build,
                   template_caches_before |-> request.template_caches,
                   candidate_uncles_before |-> request.candidate_uncles,
                   prev |-> IF hist.last # None /\ hist.last[1].limits = limits
                            THEN Some(hist.last[1].result) ELSE None,
                   work_before |-> work_id,
                   work_after |-> h.work_id,
                   fresh_before |-> MaxOf(hist.fresh),
                   replied_before |-> MaxOf({p[2] : p \in hist.replied}),
                   replied_at_key_before |->
                       MaxOf({p[2] : p \in {q \in hist.replied : q[1] = key}})]
           /\ hist' = [last |-> IF h.result.ok /\ ~hist.changed
                                THEN Some([limits |-> limits, result |-> h.result])
                                ELSE None,
                       fresh |-> IF h.kind = "fresh" THEN hist.fresh \cup {id}
                                 ELSE hist.fresh,
                       replied |-> IF h.result.ok THEN hist.replied \cup {<<key, id>>}
                                   ELSE hist.replied,
                       since_uncle |-> IF h.kind = "fresh"
                                       THEN hist.since_uncle \cup {id}
                                       ELSE hist.since_uncle,
                       built |-> IF h.kind = "fresh"
                                 THEN hist.built \cup {<<id, limits>>}
                                 ELSE hist.built,
                       changed |-> FALSE]
    /\ probe' = Idle
    /\ UNCHANGED <<tip, pool, candidate_uncles, last_uncles_updated_at>>

\* The worker takes a request from get_block_template_receiver.
GetBlockTemplate(bytes_limit, proposals_limit, max_version) ==
    /\ steps < MaxSteps
    /\ steps' = steps + 1
    /\ worker = "Running"
    /\ Receive(bytes_limit, proposals_limit, max_version, 0)
    /\ UNCHANGED chan

\* The worker finishes the request it has taken and sends the reply.
SendTemplate ==
    /\ Answer(clock)
    /\ UNCHANGED <<steps, chan>>

\* While the worker has a request in flight the other threads go on: the clock
\* advances, the chain takes another tip, the pool changes.
Next ==
    \/ \E d \in TickSteps : Tick(d)
    \/ \E b \in TipSet : SetTip(b)
    \/ \E o \in PoolOptions : MempoolChange(o)
    \/ \E b \in UncleSet : NewUncle(b)
    \/ \E r \in Requests : GetBlockTemplate(r[1], r[2], r[3])
    \/ SendTemplate

Spec == Init /\ [][Next]_vars

----------------------------------------------------------------------------
(* One request in any chain state: the tip, the pool and the candidate     *)
(* uncles are drawn, then a single request is answered.                    *)

\* Candidate uncles at the start of a run of SpecBuild, at most.
MaxBuildCandidates == 2

RECURSIVE DistinctSeqs(_, _)
\* The sequences of at most n distinct elements of S.
DistinctSeqs(S, n) ==
    IF n = 0 THEN {<<>>}
    ELSE Let(DistinctSeqs(S, n - 1), LAMBDA shorter :
             shorter \cup {Append(q, x) : <<q, x>> \in
                              {<<q, x>> \in shorter \X S : x \notin Range(q)}})

\* A candidate-uncle cache holding the blocks of these hashes, in this order.
AsCache(hashes) == [i \in 1..Len(hashes) |-> [key |-> hashes[i], val |-> hashes[i]]]

BuildTips == {1, 2, 6, 7, 8, 9, 10}

BuildCandidates == {3, 4, 5, 7, 11, 12}

\* Caches of three candidates, one more than a template takes.
BuildTriples == {<<3, 5, 12>>, <<12, 3, 5>>, <<3, 4, 5>>}

BuildPools ==
    { [txs |-> <<>>, proposals |-> <<>>],
      [txs |-> <<105>>, proposals |-> <<71>>],
      [txs |-> <<103, 104, 105>>, proposals |-> <<71, 72, 73>>],
      [txs |-> <<104, 103>>, proposals |-> <<71, 72>>],
      [txs |-> <<103, 107>>, proposals |-> <<>>],
      [txs |-> <<110>>, proposals |-> <<>>] }

BuildRequests ==
    { <<None, None, None>>,
      <<Some(13), Some(3), Some(2)>>,
      <<Some(12), Some(2), Some(1)>>,
      <<Some(9), Some(1), Some(0)>>,
      <<Some(7), Some(0), None>>,
      <<Some(0), None, None>> }

InitBuild ==
    /\ tip \in BuildTips
    /\ \E o \in BuildPools :
           pool = [txs |-> o.txs, proposals |-> o.proposals, updated_at |-> 0]
    /\ clock = 20
    /\ candidate_uncles \in
           {AsCache(q) : q \in DistinctSeqs(BuildCandidates, MaxBuildCandidates)
                                   \cup BuildTriples}
    /\ last_uncles_updated_at = 0
    /\ template_caches = <<>>
    /\ work_id = 0
    /\ worker = "Running"
    /\ reply = NoReply
    /\ hist = NoHistory
    /\ probe = Idle
    /\ steps = 0
    /\ chan = NoChannels

\* The one request is taken; while it is in flight the tip or the pool may change
\* once; then the worker finishes it, the clock read again at once or a tick later.
NextBuild ==
    \/ \E r \in BuildRequests :
           /\ steps = 0
           /\ GetBlockTemplate(r[1], r[2], r[3])
    \/ \E b \in {3, 6, 8} : steps = 1 /\ probe # Idle /\ SetTip(b)
    \/ \E o \in {[txs |-> <<106>>, proposals |-> <<>>]} : steps = 1 /\ probe # Idle /\ MempoolChange(o)
    \/ \E d \in 0..1 : probe # Idle /\ Answer(clock + d) /\ UNCHANGED <<steps, chan>>

SpecBuild == InitBuild /\ [][NextBuild]_vars

----------------------------------------------------------------------------
(* The two caches filled to their capacities: uncles arrive one after the  *)
(* other, and requests name one new cache key after the other.            *)

\* The events of one run of SpecCaches.
MaxCacheSteps == 56

\* The uncles announced, in this order: the further children of G.
CacheUncles == [i \in 1..Siblings |-> Len(BlockOf) - Siblings + i]

\* Requests of twelve cache keys.
CacheRequests ==
    [i \in 1..12 |-> <<Some(7 + ((i - 1) \div 2)), None, Some((i - 1) % 2)>>]

InitCaches ==
    /\ tip = 6
    /\ pool = [txs |-> <<>>, proposals |-> <<>>, updated_at |-> 0]
    /\ clock = 20
    /\ candidate_uncles = <<>>
    /\ last_uncles_updated_at = 0
    /\ template_caches = <<>>
    /\ work_id = 0
    /\ worker = "Running"
    /\ reply = NoReply
    /\ hist = NoHistory
    /\ probe = Idle
    /\ steps = 0
    /\ chan = NoChannels

\* The cache keys answered so far.
KeysAnswered == {p[1] : p \in hist.replied}

\* The worker takes the next uncle announced.
CacheUncle(i) ==
    /\ steps < MaxCacheSteps
    /\ steps' = steps + 1
    /\ worker = "Running"
    /\ probe = Idle
    /\ \/ candidate_uncles = <<>> /\ i = 1
       \/ /\ candidate_uncles # <<>>
          /\ CacheUncles[i] = candidate_uncles[Len(candidate_uncles)].key + 1
    /\ IngestUncle(CacheUncles[i])
    /\ UNCHANGED chan

\* The worker answers a request of the next new key.
CacheRequest(i) ==
    /\ steps < MaxCacheSteps
    /\ steps' = steps + 1
    /\ worker = "Running"
    /\ i = Cardinality(KeysAnswered) + 1
    /\ Receive(CacheRequests[i][1], CacheRequests[i][2], CacheRequests[i][3], 0)
    /\ UNCHANGED chan

NextCaches ==
    \/ \E i \in 1..Siblings : CacheUncle(i)
    \/ \E i \in 1..Len(CacheRequests) : CacheRequest(i)
    \/ SendTemplate

SpecCaches == InitCaches /\ [][NextCaches]_vars

----------------------------------------------------------------------------
(* The service with its channels: callers enqueue requests, the network    *)
(* announces uncles, the controller is dropped, and the worker selects one *)
(* ready channel at a time.                                                *)

\* Calls of get_block_template in one run, at most.
MaxCalls == 3

\* Messages a channel holds, at most.
MaxQueue == 2

ServiceRequests == { <<None, None, None>>, <<Some(0), None, None>> }

\* The ids of the requests in a queue.
Ids(requests) == {requests[i].id : i \in 1..Len(requests)}

\* The reply withheld once the shutdown token is in the channel.
Respond_unless_stopping(c, id) ==
    IF c.signal > 0 THEN c ELSE [c EXCEPT !.replies = Append(@, id)]

\* responder.send(result): the reply reaches the caller of the request.
Respond(c, id) == [c EXCEPT !.replies = Append(@, id)]

\* The worker's closure returns or unwinds: its receivers are dropped, and with
\* them the requests still queued and their reply slots.
Disconnect(c) ==
    [c EXCEPT !.discarded = @ \cup Ids(c.requests), !.requests = <<>>,
              !.uncles = <<>>]

\* Whether the worker handles an event while the shutdown token is in its channel.
Late(c) == c.late \/ c.signal > 0

\* BlockAssemblerController::get_block_template: Request::call sends the request.
Call(r) ==
    /\ worker = "Running"
    /\ chan.requests_open
    /\ chan.calls < MaxCalls
    /\ Len(chan.requests) < MaxQueue
    /\ chan' = [chan EXCEPT !.calls = @ + 1,
                            !.requests = Append(@, [id |-> chan.calls + 1, args |-> r])]
    /\ UNCHANGED <<tip, pool, clock, candidate_uncles, last_uncles_updated_at,
                   template_caches, work_id, worker, reply, hist, probe, steps>>

\* The notify service announces an uncle to the subscriber.
Notify(b) ==
    /\ worker = "Running"
    /\ chan.uncles_open
    /\ Len(chan.uncles) < MaxQueue
    /\ chan' = [chan EXCEPT !.uncles = Append(@, b)]
    /\ UNCHANGED <<tip, pool, clock, candidate_uncles, last_uncles_updated_at,
                   template_caches, work_id, worker, reply, hist, probe, steps>>

\* The notify service goes away: the uncle channel is disconnected.
CloseUncles ==
    /\ chan.uncles_open
    /\ chan' = [chan EXCEPT !.uncles_open = FALSE]
    /\ UNCHANGED <<tip, pool, clock, candidate_uncles, last_uncles_updated_at,
                   template_caches, work_id, worker, reply, hist, probe, steps>>

\* Drop for BlockAssemblerController: stop.try_send() puts the token in the channel.
DropController ==
    /\ chan.signal = 0
    /\ worker = "Running"
    /\ chan' = [chan EXCEPT !.signal = 1]
    /\ UNCHANGED <<tip, pool, clock, candidate_uncles, last_uncles_updated_at,
                   template_caches, work_id, worker, reply, hist, probe, steps>>

\* The fields of the dropped controller are dropped after Drop::drop has run:
\* get_block_template_sender goes, and the request channel is disconnected.
DropSender ==
    /\ chan.signal > 0
    /\ chan.requests_open
    /\ chan' = [chan EXCEPT !.requests_open = FALSE]
    /\ UNCHANGED <<tip, pool, clock, candidate_uncles, last_uncles_updated_at,
                   template_caches, work_id, worker, reply, hist, probe, steps>>

\* select! takes the shutdown token: the loop breaks.
TakeSignal ==
    /\ worker = "Running"
    /\ probe.fn # "request"
    /\ chan.signal > 0
    /\ worker' = "Stopped"
    /\ chan' = Disconnect(chan)
    /\ UNCHANGED <<tip, pool, clock, candidate_uncles, last_uncles_updated_at,
                   template_caches, work_id, reply, hist, probe, steps>>

\* select! takes an uncle from new_uncle_receiver.
TakeUncle ==
    /\ worker = "Running"
    /\ probe.fn # "request"
    /\ chan.uncles # <<>>
    /\ IngestUncle(Head(chan.uncles))
    /\ chan' = [chan EXCEPT !.uncles = Tail(@), !.late = Late(chan)]
    /\ UNCHANGED steps

\* The worker that waits for the request channel to close as well.
UnclesClosed_blocking ==
    /\ worker = "Running"
    /\ probe.fn # "request"
    /\ chan.uncles = <<>>
    /\ ~chan.uncles_open
    /\ ~chan.requests_open
    /\ worker' = "Stopped"
    /\ chan' = Disconnect(chan)
    /\ UNCHANGED <<tip, pool, clock, candidate_uncles, last_uncles_updated_at,
                   template_caches, work_id, reply, hist, probe, steps>>

\* select! finds new_uncle_receiver disconnected and empty: the loop breaks.
UnclesClosed ==
    /\ worker = "Running"
    /\ probe.fn # "request"
    /\ chan.uncles = <<>>
    /\ ~chan.uncles_open
    /\ worker' = "Stopped"
    /\ chan' = Disconnect(chan)
    /\ UNCHANGED <<tip, pool, clock, candidate_uncles, last_uncles_updated_at,
                   template_caches, work_id, reply, hist, probe, steps>>

\* select! takes a request from get_block_template_receiver.
TakeRequest ==
    /\ worker = "Running"
    /\ chan.requests # <<>>
    /\ \E req \in {Head(chan.requests)} :
           /\ Receive(req.args[1], req.args[2], req.args[3], req.id)
           /\ chan' = [chan EXCEPT !.requests = Tail(@),
                                   !.dequeued = @ \cup {req.id},
                                   !.late = Late(chan)]
    /\ UNCHANGED steps

\* The worker finishes the request it has taken and answers it, unless the build
\* panics and the thread unwinds.
AnswerRequest ==
    /\ Answer(clock)
    /\ chan' = IF reply'.kind = "panic"
               THEN Disconnect(chan)
               ELSE Respond(chan, probe.id)
    /\ UNCHANGED steps

\* select! finds get_block_template_receiver disconnected and empty: the loop
\* breaks.
RequestsClosed ==
    /\ worker = "Running"
    /\ probe.fn # "request"
    /\ chan.requests = <<>>
    /\ ~chan.requests_open
    /\ worker' = "Stopped"
    /\ chan' = Disconnect(chan)
    /\ UNCHANGED <<tip, pool, clock, candidate_uncles, last_uncles_updated_at,
                   template_caches, work_id, reply, hist, probe, steps>>

NextService ==
    \/ \E r \in ServiceRequests : Call(r)
    \/ \E b \in UncleSet : Notify(b)
    \/ CloseUncles
    \/ DropController
    \/ DropSender
    \/ TakeSignal
    \/ TakeUncle
    \/ UnclesClosed
    \/ TakeRequest
    \/ AnswerRequest
    \/ RequestsClosed

\* select! is fair to the request channel: a request at the head of the queue is
\* taken in the end, and the worker thread goes on with a request it has taken.
SpecService ==
    Init /\ [][NextService]_vars /\ WF_vars(TakeRequest) /\ WF_vars(AnswerRequest)

\* The worker thread keeps running its loop, and select! takes a random one of the
\* operations that are ready: an operation that stays ready is taken in the end.
SpecWorker ==
    /\ Init
    /\ [][NextService]_vars
    /\ WF_vars(TakeSignal)
    /\ WF_vars(TakeUncle)
    /\ WF_vars(UnclesClosed)
    /\ WF_vars(TakeRequest)
    /\ WF_vars(AnswerRequest)
    /\ WF_vars(RequestsClosed)

----------------------------------------------------------------------------
(* Uncle notifications on their own: the candidate-uncle cache holds the   *)
(* first uncles announced, up to its capacity, and further notifications,  *)
(* of uncles in the cache and of new ones, go through the channel.         *)

\* Notifications in one run of SpecIngest, at most.
MaxIngests == 3

\* The uncles in the cache at the start: none, a few, one short of the capacity, or
\* as many as it holds.
IngestFills == {0, 1, 2, MAX_CANDIDATE_UNCLES - 1, MAX_CANDIDATE_UNCLES}

\* The uncles announced: the first two, and those around the capacity.
IngestHashes ==
    {CacheUncles[i] : i \in {1, 2, MAX_CANDIDATE_UNCLES, MAX_CANDIDATE_UNCLES + 1,
                             MAX_CANDIDATE_UNCLES + 2}}

InitIngest ==
    /\ tip = 6
    /\ pool = [txs |-> <<>>, proposals |-> <<>>, updated_at |-> 0]
    /\ clock = 21
    /\ \E n \in IngestFills :
           /\ candidate_uncles = AsCache([i \in 1..n |-> CacheUncles[i]])
           /\ last_uncles_updated_at = IF n = 0 THEN 0 ELSE 20
    /\ template_caches = <<>>
    /\ work_id = 0
    /\ worker = "Running"
    /\ reply = NoReply
    /\ hist = NoHistory
    /\ probe = Idle
    /\ steps = 0
    /\ chan = NoChannels

\* The notify service announces an uncle.
Announce(b) ==
    /\ steps < MaxIngests
    /\ steps' = steps + 1
    /\ Len(chan.uncles) < MaxQueue
    /\ chan' = [chan EXCEPT !.uncles = Append(@, b)]
    /\ UNCHANGED <<tip, pool, clock, candidate_uncles, last_uncles_updated_at,
                   template_caches, work_id, worker, reply, hist, probe>>

NextIngest ==
    \/ \E b \in IngestHashes : Announce(b)
    \/ TakeUncle
    \/ \E d \in {1} : Tick(d)

SpecIngest == InitIngest /\ [][NextIngest]_vars

----------------------------------------------------------------------------
(* get_block_template step by step: the worker takes the chain-state lock, *)
(* works under it, releases it, builds the cellbase and the template, and  *)
(* replies, while the chain and the pool change whenever the lock is free. *)

\* The events of one run of SpecLock.
MaxLockSteps == 4

LockRequests == Requests \cup {<<Some(0), None, None>>}

\* The worker at select!, the lock free.
AtSelect ==
    [fn |-> "get_block_template", pc |-> "select", lock |-> "free", acquired |-> 0,
     snap |-> None, chain |-> None, gathered |-> None, cached |-> None,
     kind |-> "none", result |-> Err("none"), id |-> 0]

InitLock ==
    /\ tip = 2
    /\ pool = [txs |-> <<103, 104>>, proposals |-> <<71>>, updated_at |-> 0]
    /\ clock = 20
    /\ candidate_uncles = <<>>
    /\ last_uncles_updated_at = 0
    /\ template_caches = <<>>
    /\ work_id = 0
    /\ worker = "Running"
    /\ reply = NoReply
    /\ hist = NoHistory
    /\ probe = AtSelect
    /\ steps = 0
    /\ chan = NoChannels

\* The lock kept until the function returns.
drop_chain_state_at_return(lock) == lock

\* drop(chain_state)
drop_chain_state(lock) == "free"

\* The worker takes a request: it clamps the limits, takes the chain-state lock and
\* reads the pool's watermark, the tip and the clock.
LockChainState(bytes_limit, proposals_limit, max_version) ==
    /\ steps < MaxLockSteps
    /\ steps' = steps + 1
    /\ worker = "Running"
    /\ probe.pc = "select"
    /\ probe.lock = "free"
    /\ probe' = [probe EXCEPT
                    !.pc = "locked", !.lock = "worker", !.acquired = @ + 1,
                    !.snap = Some(Snapshot(bytes_limit, proposals_limit, max_version)),
                    !.chain = Some([tip |-> tip, pool |-> pool])]
    /\ UNCHANGED <<tip, pool, clock, candidate_uncles, last_uncles_updated_at,
                   template_caches, work_id, worker, reply, hist, chan>>

\* Under the lock: the cache is looked up and a valid entry returned; otherwise the
\* uncles, the proposals and the staging transactions are read and the lock is
\* dropped, unless the size budget panics and the thread unwinds.
UnderLock ==
    /\ worker = "Running"
    /\ probe.pc = "locked"
    /\ \E snap \in {probe.snap[1]} :
       \E got \in {LruGet(template_caches, snap.key)} :
           /\ template_caches' = got.cache
           /\ IF CacheHit(snap, got.found)
              THEN /\ probe' = [probe EXCEPT
                                   !.pc = "reply", !.lock = "free", !.kind = "hit",
                                   !.result = Ok(got.found[1].template)]
                   /\ UNCHANGED <<candidate_uncles, worker>>
              ELSE \E g \in {Gather(snap)} :
                       /\ candidate_uncles' = g.candidate_uncles
                       /\ IF ~g.txs_size_limit.ok
                          THEN /\ worker' = "Panicked"
                               /\ probe' = [probe EXCEPT
                                               !.pc = "unwound", !.lock = "free",
                                               !.kind = "panic",
                                               !.result = g.txs_size_limit]
                          ELSE /\ worker' = worker
                               /\ probe' = [probe EXCEPT
                                               !.pc = "cellbase",
                                               !.lock = drop_chain_state(@),
                                               !.gathered = Some(g)]
    /\ UNCHANGED <<tip, pool, clock, last_uncles_updated_at, work_id, reply, hist,
                   steps, chan>>

\* After the lock: the cellbase is built, the clock read again, and the template
\* made and cached; the function returns. The pool as it is then is noted.
BuildCellbase ==
    /\ worker = "Running"
    /\ probe.pc = "cellbase"
    /\ \E f \in {Finish(probe.snap[1], probe.gathered[1], clock)} :
           /\ probe' = [probe EXCEPT !.pc = "reply", !.lock = "free",
                                     !.kind = f.kind, !.result = f.result,
                                     !.cached = Some(pool)]
           /\ template_caches' =
                  IF f.kind = "fresh"
                  THEN LruInsert(template_caches, probe.snap[1].key, f.entry,
                                 TEMPLATE_CACHE_SIZE)
                  ELSE template_caches
           /\ work_id' = IF f.kind = "fresh" THEN f.work_id ELSE work_id
    /\ UNCHANGED <<tip, pool, clock, candidate_uncles, last_uncles_updated_at,
                   worker, reply, hist, steps, chan>>

\* responder.send: the worker replies and goes back to select!.
SendReply ==
    /\ worker = "Running"
    /\ probe.pc = "reply"
    /\ probe' = AtSelect
    /\ UNCHANGED <<tip, pool, clock, candidate_uncles, last_uncles_updated_at,
                   template_caches, work_id, worker, reply, hist, steps, chan>>

\* Another thread takes the chain-state lock and moves the tip.
LockedSetTip(b) ==
    /\ steps < MaxLockSteps
    /\ probe.lock = "free"
    /\ SetTip(b)

\* Another thread takes the chain-state lock and changes the pool.
LockedMempoolChange(o) ==
    /\ steps < MaxLockSteps
    /\ probe.lock = "free"
    /\ MempoolChange(o)

\* The wall clock advances.
LockTick(d) ==
    /\ steps < MaxLockSteps
    /\ Tick(d)

NextLock ==
    \/ \E r \in LockRequests : LockChainState(r[1], r[2], r[3])
    \/ UnderLock
    \/ BuildCellbase
    \/ SendReply
    \/ \E b \in TipSet : LockedSetTip(b)
    \/ \E o \in PoolOptions : LockedMempoolChange(o)
    \/ \E d \in TickSteps : LockTick(d)

SpecLock == InitLock /\ [][NextLock]_vars

----------------------------------------------------------------------------
(* The worker loop step by step: requests and uncles wait in their         *)
(* channels while the worker is between the dequeuing of a request and the *)
(* sending of its reply.                                                   *)

EventRequests == { <<None, None, None>>, <<Some(7), None, None>> }

\* The worker that selects again wherever it is.
at_select_anywhere(p) == TRUE

\* The worker is at select!: the loop body of the event before has returned.
at_select(p) == p.pc = "select"

\* select! takes a request: the worker starts get_block_template with it.
DequeueRequest ==
    /\ worker = "Running"
    /\ at_select(probe)
    /\ chan.requests # <<>>
    /\ \E req \in {Head(chan.requests)} :
           /\ probe' = [AtSelect EXCEPT
                           !.pc = "locked", !.lock = "worker", !.acquired = 1,
                           !.snap = Some(Snapshot(req.args[1], req.args[2],
                                                  req.args[3])),
                           !.chain = Some([tip |-> tip, pool |-> pool]),
                           !.id = req.id]
           /\ chan' = [chan EXCEPT !.requests = Tail(@),
                                   !.dequeued = @ \cup {req.id},
                                   !.late = Late(chan)]
    /\ UNCHANGED <<tip, pool, clock, candidate_uncles, last_uncles_updated_at,
                   template_caches, work_id, worker, reply, hist, steps>>

\* responder.send: the reply goes to the caller of the request in hand.
ReplyTo ==
    /\ worker = "Running"
    /\ probe.pc = "reply"
    /\ chan' = Respond(chan, probe.id)
    /\ probe' = AtSelect
    /\ UNCHANGED <<tip, pool, clock, candidate_uncles, last_uncles_updated_at,
                   template_caches, work_id, worker, reply, hist, steps>>

\* select! takes an uncle.
SelectUncle ==
    /\ at_select(probe)
    /\ TakeUncle

NextEvents ==
    \/ \E r \in EventRequests : Call(r)
    \/ \E b \in UncleSet : Notify(b)
    \/ DequeueRequest
    \/ UnderLock
    \/ BuildCellbase
    \/ ReplyTo
    \/ SelectUncle

SpecEvents == InitLock /\ [][NextEvents]_vars

----------------------------------------------------------------------------
(* The service from the moment the notifier has placed an uncle in the     *)
(* assembler's channel and no request has been made yet: every request is  *)
(* enqueued after that notification.                                       *)

InitRace ==
    /\ tip = 2
    /\ pool = [txs |-> <<103, 104>>, proposals |-> <<71>>, updated_at |-> 0]
    /\ clock = 20
    /\ candidate_uncles = <<>>
    /\ last_uncles_updated_at = 0
    /\ template_caches = <<>>
    /\ work_id = 0
    /\ worker = "Running"
    /\ reply = NoReply
    /\ hist = NoHistory
    /\ probe = Idle
    /\ steps = 0
    /\ chan = [NoChannels EXCEPT !.uncles = <<3>>]

SpecRace == InitRace /\ [][NextService]_vars

----------------------------------------------------------------------------
(* prepare_uncles on its own: the tip and the candidates are drawn, then   *)
(* the function is applied for either epoch.                               *)

\* Candidate uncles at the start of a run of SpecUncles, at most.
MaxCandidates == 3

UncleTips == {2, 6, 7, 8, 9, 10, 14}

UncleCandidates == {2, 3, 4, 5, 6, 7, 9, 11, 12, 13, 15}

InitUncles ==
    /\ tip \in UncleTips
    /\ pool = [txs |-> <<>>, proposals |-> <<>>, updated_at |-> 0]
    /\ clock = 20
    /\ candidate_uncles \in
           {AsCache(q) : q \in DistinctSeqs(UncleCandidates, MaxCandidates)}
    /\ last_uncles_updated_at = 0
    /\ template_caches = <<>>
    /\ work_id = 0
    /\ worker = "Running"
    /\ reply = NoReply
    /\ hist = NoHistory
    /\ probe = Idle
    /\ steps = 0
    /\ chan = NoChannels

\* prepare_uncles(tip_header, current_epoch) applied to the candidates.
PrepareUncles(e) ==
    /\ probe = Idle
    /\ probe' = [fn |-> "prepare_uncles", epoch |-> Epochs[e],
                 out |-> prepare_uncles(HeaderOf(tip), Epochs[e], candidate_uncles)]
    /\ UNCHANGED <<tip, pool, clock, candidate_uncles, last_uncles_updated_at,
                   template_caches, work_id, worker, reply, hist, steps, chan>>

NextUncles == \E e \in 1..Len(Epochs) : PrepareUncles(e)

SpecUncles == InitUncles /\ [][NextUncles]_vars

----------------------------------------------------------------------------
(* The fee calculator on its own: a batch of pool entries is drawn, then   *)
(* the fee of one of its transactions, or the cellbase over all of them,   *)
(* is computed.                                                            *)

\* Pool entries in the batch of a run of SpecFee, at most.
MaxBatch == 2

InitFee ==
    /\ tip = 2
    /\ pool \in {[txs |-> q, proposals |-> <<>>, updated_at |-> 0] :
                    q \in DistinctSeqs(TxHashes \ Committed, MaxBatch)}
    /\ clock = 20
    /\ candidate_uncles = <<>>
    /\ last_uncles_updated_at = 0
    /\ template_caches = <<>>
    /\ work_id = 0
    /\ worker = "Running"
    /\ reply = NoReply
    /\ hist = NoHistory
    /\ probe = Idle
    /\ steps = 0
    /\ chan = NoChannels

\* The entries of the batch.
Batch == [i \in 1..Len(pool.txs) |-> PoolEntry(pool.txs[i])]

\* FeeCalculator::new(pes).calculate_transaction_fee(pes[i].transaction)
CalculateFee(i) ==
    /\ probe = Idle
    /\ probe' = [fn |-> "fee", tx |-> pool.txs[i],
                 out |-> calculate_transaction_fee(Batch, TxOf(pool.txs[i])),
                 lookups |-> provider_lookups(Batch, TxOf(pool.txs[i]).inputs, 1, 0)]
    /\ UNCHANGED <<tip, pool, clock, candidate_uncles, last_uncles_updated_at,
                   template_caches, work_id, worker, reply, hist, steps, chan>>

\* create_cellbase_transaction(tip_header, current_epoch, pes, lock)
CreateCellbase ==
    /\ probe = Idle
    /\ probe' = [fn |-> "cellbase",
                 out |-> create_cellbase_transaction(
                             HeaderOf(tip), CurrentEpoch(HeaderOf(tip)), Batch,
                             CellbaseLock)]
    /\ UNCHANGED <<tip, pool, clock, candidate_uncles, last_uncles_updated_at,
                   template_caches, work_id, worker, reply, hist, steps, chan>>

NextFee ==
    \/ \E i \in 1..Len(pool.txs) : CalculateFee(i)
    \/ CreateCellbase

SpecFee == InitFee /\ [][NextFee]_vars

----------------------------------------------------------------------------
(* Properties of the replies.                                              *)

Answered == reply.kind \in {"hit", "fresh"}

Template == reply.result.val

\* min(provided ?? cap, cap)
Clamp(provided, cap) == Min(UnwrapOr(provided, cap), cap)

\* C1: every Ok reply, fresh or cached, has parent_hash = the hash of the tip read
\* for that request and number = that tip's number + 1.
C1_ParentIsTip ==
    Answered =>
        /\ Template.parent_hash = reply.tip
        /\ ParseInt(Template.number) = BlockOf[reply.tip].number + 1

\* The entry at the request's key answers it: the three conditions of validity.
EntryValid ==
    /\ reply.found # None
    /\ reply.found[1].uncles_updated_at = reply.last_uncles_updated_at
    /\ \/ reply.found[1].txs_updated_at = reply.last_txs_updated_at
       \/ reply.current_time - reply.found[1].time <= 3000
    /\ ParseInt(reply.found[1].template.number) = BlockOf[reply.tip].number + 1

\* C2: a request is answered with a clone of the entry at (cycles_limit, bytes_limit',
\* version') iff the entry exists and is valid (same uncle watermark; same pool
\* watermark or at most 3000 ms old; number = tip.number + 1); otherwise a build is
\* made, and the template it returns is inserted at that key.
C2_CacheHitIffValid ==
    reply.kind # "none" =>
        /\ reply.kind = "hit" <=> EntryValid
        /\ reply.kind = "hit" => reply.result = Ok(reply.found[1].template)
        /\ reply.kind = "fresh" =>
               Let(EntryAt(template_caches, max_block_cycles,
                           Clamp(reply.args[1], max_block_bytes),
                           Clamp(reply.args[3], block_version)),
                   LAMBDA e : e # None /\ Ok(e[1].template) = reply.result)

\* A hit on an entry of another pool watermark, exactly 3000 ms after its build.
C2_Witness ==
    /\ reply.kind = "hit"
    /\ reply.found[1].txs_updated_at # reply.last_txs_updated_at
    /\ reply.current_time - reply.found[1].time = 3000

\* C3, as stated: a second request with the same clamped limits, nothing but time
\* between the two, gets the reply of the first and leaves work_id alone.
C3_RepeatEqual ==
    reply.prev # None =>
        /\ reply.result = reply.prev[1]
        /\ reply.work_after = reply.work_before

\* C3, amended: the same, provided the entry that answered the first request has the
\* pool's watermark or is at most 3000 ms old at the second request.
C3_RepeatEqualWhileValid ==
    ( /\ reply.prev # None
      /\ reply.found # None
      /\ \/ reply.found[1].txs_updated_at = reply.last_txs_updated_at
         \/ reply.current_time - reply.found[1].time <= 3000 )
    => /\ reply.result = reply.prev[1]
       /\ reply.work_after = reply.work_before

\* A repeated request answered from an entry of another pool watermark.
C3_Witness ==
    /\ reply.prev # None
    /\ reply.kind = "hit"
    /\ reply.found[1].txs_updated_at # reply.last_txs_updated_at

\* C4: an Ok reply has at most proposals_limit' proposals, for the request's own
\* proposals_limit.
C4_ProposalsWithinLimit ==
    Answered =>
        Len(Template.proposals) <= Clamp(reply.args[2], max_block_proposals_limit)

RECURSIVE ParentPow(_, _)
\* The k-th ancestor of a block, or NoHash where the parent walk has ended.
ParentPow(h, k) ==
    IF k = 0 THEN h
    ELSE Let(ParentPow(h, k - 1), LAMBDA p :
             IF p \in Hashes THEN BlockOf[p].parent_hash ELSE NoHash)

\* The blocks the parent walk from the tip visits: the tip and its ancestors, at
\* most max_uncles_age blocks in all.
Visited(t) == {ParentPow(t, k) : k \in 0..(max_uncles_age - 1)} \cap Hashes

\* C5: prepare_uncles returns at most max_uncles_num uncles of distinct hashes, each
\* of the epoch's difficulty and number, at depth 1..max_uncles_age below the
\* template, and none the tip, an ancestor within max_uncles_age of the tip, or an
\* uncle embedded in a block the walk visits.
C5_UnclesEligible ==
    probe.fn = "prepare_uncles" =>
        Let(probe.out.uncles, LAMBDA uncles :
            /\ Len(uncles) <= max_uncles_num
            /\ \A i, j \in 1..Len(uncles) :
                   uncles[i].header.hash = uncles[j].header.hash => i = j
            /\ \A i \in 1..Len(uncles) :
                   Let(uncles[i].header, LAMBDA u :
                       /\ u.difficulty = probe.epoch.difficulty
                       /\ u.epoch = probe.epoch.number
                       /\ 1 <= BlockOf[tip].number + 1 - u.number
                       /\ BlockOf[tip].number + 1 - u.number <= max_uncles_age
                       /\ u.hash # tip
                       /\ \A k \in 1..max_uncles_age : u.hash # ParentPow(tip, k)
                       /\ \A b \in Visited(tip) :
                              u.hash \notin Range(BlockOf[b].uncles)))

\* A full uncle set, chosen past a candidate that a visited block embeds and past
\* the tip itself.
C5_Witness ==
    /\ probe.fn = "prepare_uncles"
    /\ Len(probe.out.uncles) = max_uncles_num
    /\ \E i \in 1..Len(probe.out.bad_uncles) :
           /\ probe.out.bad_uncles[i] \in Range(BlockOf[tip].uncles)
           /\ BlockOf[probe.out.bad_uncles[i]].difficulty = probe.epoch.difficulty

\* The serialized size of an uncle of a template.
TemplateUncleSize(u) == HeaderSize + Len(u.proposals) * ProposalShortIdSize

\* header_size + the uncles' sizes + |proposals| * proposal_short_id_size
TemplateOccupied(t) ==
    HeaderSize
    + SumSeq([i \in 1..Len(t.uncles) |-> TemplateUncleSize(t.uncles[i])])
    + Len(t.proposals) * ProposalShortIdSize

\* The serialized sizes of the selected transactions, summed.
SelectedSize(txs) == SumSeq([i \in 1..Len(txs) |-> txs[i].size])

\* C6: in a fresh build the size budget handed to the mempool is bytes_limit' minus
\* header, uncles and proposals, the cycles budget is max_block_cycles, and when the
\* selected transactions fit the budget the whole template fits bytes_limit'.
C6_BudgetFits ==
    reply.kind = "fresh" =>
        Let(reply.build[1], LAMBDA b :
            /\ b.txs_size_limit = reply.limits[1] - TemplateOccupied(Template)
            /\ b.cycles_limit = max_block_cycles
            /\ [i \in 1..Len(b.transactions) |-> b.transactions[i].transaction]
                   = [i \in 1..Len(Template.transactions) |->
                         Template.transactions[i].hash]
            /\ SelectedSize(b.transactions) <= b.txs_size_limit
                   => TemplateOccupied(Template) + SelectedSize(b.transactions)
                          <= reply.limits[1])

\* A fresh template with uncles, proposals and transactions, the budget too small
\* for the whole pool.
C6_Witness ==
    /\ reply.kind = "fresh"
    /\ Len(Template.uncles) = max_uncles_num
    /\ Len(Template.proposals) > 0
    /\ Len(Template.transactions) > 0
    /\ Len(Template.transactions) < Len(reply.pool)
    /\ TemplateOccupied(Template) + SelectedSize(reply.build[1].transactions)
           = reply.limits[1]

RECURSIVE FeesOf(_, _)
\* The fees of the first n transactions of a batch, summed.
FeesOf(pes, n) ==
    IF n = 0 THEN 0
    ELSE FeesOf(pes, n - 1)
         + calculate_transaction_fee(pes, TxOf(pes[n].transaction)).val

\* C7: the cellbase of a fresh template has one input, carrying tip.number + 1, and
\* one output, whose capacity is the block reward of the build's epoch for that
\* number plus the fees of the transactions of the template.
C7_CellbaseCapacity ==
    reply.kind = "fresh" =>
        Let(reply.build[1], LAMBDA b :
        Let(Template.cellbase.data, LAMBDA cellbase :
            /\ cellbase.inputs = <<[cellbase |-> BlockOf[reply.tip].number + 1]>>
            /\ Len(cellbase.outputs) = 1
            /\ cellbase.outputs[1].capacity =
                   block_reward(b.epoch, BlockOf[reply.tip].number + 1).val
                   + FeesOf(b.transactions, Len(b.transactions))))

\* A fresh template of two paying transactions, one spending the other.
C7_Witness ==
    /\ reply.kind = "fresh"
    /\ Len(Template.transactions) >= 2
    /\ FeesOf(reply.build[1].transactions, Len(reply.build[1].transactions)) = 30

\* Whether an out point names an output of a transaction of the batch or of the
\* chain.
Resolves(batch, out_point) ==
    /\ out_point.cell # None
    /\ out_point.cell[1].tx_hash \in Range(batch) \cup Committed
    /\ out_point.cell[1].index < Len(TxOf(out_point.cell[1].tx_hash).outputs)

\* The capacity of the output an out point names.
CapacityAt(out_point) ==
    TxOf(out_point.cell[1].tx_hash).outputs[out_point.cell[1].index + 1]

\* The capacities of the first n inputs, summed without a width.
InputsTotal(tx, n) == SumSeq([i \in 1..n |-> CapacityAt(tx.inputs[i])])

AllResolve(batch, tx) == \A i \in 1..Len(tx.inputs) : Resolves(batch, tx.inputs[i])

\* The inputs before the first one that does not resolve.
ResolvedPrefix(batch, tx) ==
    MaxOf({n \in 0..Len(tx.inputs) : \A i \in 1..n : Resolves(batch, tx.inputs[i])})

\* Whether outputs <= inputs, all inputs resolved.
Pays(batch, tx) ==
    AllResolve(batch, tx) /\ SumSeq(tx.outputs) <= InputsTotal(tx, Len(tx.inputs))

\* C8, as stated: the fee is Ok(inputs - outputs) when every input resolves and
\* outputs <= inputs, InvalidInput when some input does not resolve, InvalidOutput
\* when outputs > inputs; and no cellbase is made over a transaction whose outputs
\* exceed its resolved inputs.
C8_FeeOutcome ==
    /\ probe.fn = "fee" =>
           Let(TxOf(probe.tx), LAMBDA tx :
               /\ Pays(pool.txs, tx) =>
                      probe.out = Ok(InputsTotal(tx, Len(tx.inputs))
                                     - SumSeq(tx.outputs))
               /\ ~AllResolve(pool.txs, tx) => probe.out = Err("InvalidInput")
               /\ AllResolve(pool.txs, tx) /\ ~Pays(pool.txs, tx) =>
                      probe.out = Err("InvalidOutput"))
    /\ probe.fn = "cellbase" /\ probe.out.ok =>
           \A i \in 1..Len(pool.txs) : Pays(pool.txs, TxOf(pool.txs[i]))

\* C8, amended: the same, provided no checked sum passes the capacity width: the
\* inputs up to the first unresolved one, and the outputs once every input has
\* resolved; a sum that passes it is the overflow error.
C8_FeeOutcomeChecked ==
    /\ probe.fn = "fee" =>
           Let(TxOf(probe.tx), LAMBDA tx :
           Let(InputsTotal(tx, ResolvedPrefix(pool.txs, tx)), LAMBDA inputs :
               IF inputs > MaxCapacity
                  \/ (AllResolve(pool.txs, tx) /\ SumSeq(tx.outputs) > MaxCapacity)
               THEN probe.out = Err("Overflow")
               ELSE /\ Pays(pool.txs, tx) =>
                           probe.out = Ok(inputs - SumSeq(tx.outputs))
                    /\ ~AllResolve(pool.txs, tx) => probe.out = Err("InvalidInput")
                    /\ AllResolve(pool.txs, tx) /\ ~Pays(pool.txs, tx) =>
                           probe.out = Err("InvalidOutput")))
    /\ probe.fn = "cellbase" /\ probe.out.ok =>
           \A i \in 1..Len(pool.txs) : Pays(pool.txs, TxOf(pool.txs[i]))

\* A positive fee of a transaction that spends an output of another transaction
\* of the batch.
C8_Witness ==
    /\ probe.fn = "fee"
    /\ probe.out.ok
    /\ probe.out.val > 0
    /\ \E i \in 1..Len(TxOf(probe.tx).inputs) :
           TxOf(probe.tx).inputs[i].cell[1].tx_hash \in Range(pool.txs)

\* C11: in every state the candidate-uncle cache holds at most 42 entries and the
\* template cache at most 10.
C11_CachesBounded ==
    /\ Len(candidate_uncles) <= 42
    /\ Len(template_caches) <= 10

\* Both caches full, after a 43rd uncle and an 11th cache key.
C11_Witness ==
    /\ Len(candidate_uncles) = 42
    /\ CacheUncles[1] \notin Keys(candidate_uncles)
    /\ Len(template_caches) = 10
    /\ Cardinality(KeysAnswered) > 10

\* A parameter at or above its cap, replaced by none.
AsNone(provided, cap) ==
    IF provided # None /\ provided[1] >= cap THEN None ELSE provided

\* What the claim expects of one parameter: the cap, or the smaller value given.
Expected(provided, cap) ==
    IF provided = None \/ provided[1] >= cap THEN cap ELSE provided[1]

\* C12: each parameter is clamped on its own to min(provided ?? cap, cap): a value
\* at or above the cap gives the clamped triple, the cache key, the request in
\* flight and the reply that none gives, and a smaller value is kept.
C12_ClampLikeNone ==
    [][/\ (probe.fn = "none" /\ probe'.fn = "request") =>
             Let(probe'.args, LAMBDA a :
             Let(<<AsNone(a[1], max_block_bytes),
                   AsNone(a[2], max_block_proposals_limit),
                   AsNone(a[3], block_version)>>, LAMBDA n :
                 /\ transform_params(a[1], a[2], a[3])
                        = transform_params(n[1], n[2], n[3])
                 /\ Snapshot(a[1], a[2], a[3]).key = Snapshot(n[1], n[2], n[3]).key
                 /\ probe' = [InFlight(n[1], n[2], n[3], probe'.id)
                                  EXCEPT !.args = a]))
       /\ reply'.kind # "none" =>
             Let(reply'.args, LAMBDA a :
                 /\ reply'.limits = <<Expected(a[1], max_block_bytes),
                                      Expected(a[2], max_block_proposals_limit),
                                      Expected(a[3], block_version)>>
                 /\ reply'.result
                        = Handle([probe EXCEPT !.args = <<None, None, None>>],
                                 clock').result)]_vars

\* A fresh reply to a request with every parameter above its cap.
C12_Witness ==
    /\ reply.kind = "fresh"
    /\ reply.args[1] # None /\ reply.args[1][1] > max_block_bytes
    /\ reply.args[2] # None /\ reply.args[2][1] > max_block_proposals_limit
    /\ reply.args[3] # None /\ reply.args[3][1] > block_version
    /\ reply.limits = <<max_block_bytes, max_block_proposals_limit, block_version>>

\* The entries of a cache, whatever their order.
Content(cache) == Range(cache)

\* C13: when a build fails the caller gets the error and no template, the template
\* cache keeps its entries, the work_id counter is not advanced, and the worker
\* stays Running.
C13_FailedBuildLeavesState ==
    reply.kind = "error" =>
        /\ ~reply.result.ok
        /\ Content(template_caches) = Content(reply.template_caches_before)
        /\ work_id = reply.work_before
        /\ reply.work_after = reply.work_before
        /\ worker = "Running"

\* A failed build at a key that holds an entry, after two fresh builds.
C13_Witness ==
    /\ reply.kind = "error"
    /\ reply.found # None
    /\ reply.work_before >= 2

\* C14: a build aborted by an error of the fee calculator leaves the candidate-uncle
\* cache as it was before the request.
C14_FailedBuildKeepsUncles ==
    ( /\ reply.kind = "error"
      /\ reply.result.err \in {"InvalidInput", "InvalidOutput"} )
    => candidate_uncles = reply.candidate_uncles_before

\* C15: when bytes_limit' is not above header, uncles and proposals, the caller gets
\* a Configuration error like any other build error, and the worker stays Running.
C15_SmallLimitIsError ==
    ( /\ reply.build # None
      /\ reply.limits[1] <= Occupied(reply.build[1].uncles, reply.build[1].proposals) )
    => /\ reply.kind = "error"
       /\ reply.result = Err("Configuration")
       /\ worker = "Running"

\* C16: once the worker has taken an uncle, no request is answered with a template
\* cached before that: a cached template served was built after the last uncle.
C16_NoReplyFromBeforeUncle ==
    reply.kind = "hit" => ParseInt(Template.work_id) \in hist.since_uncle

\* C17: a reply served from an entry of another pool watermark comes at most 3000 ms
\* after the entry was built; with the watermark changed and more than 3000 ms
\* gone, the request at that key builds again.
C17_StaleWithinTimeout ==
    ( /\ reply.found # None
      /\ reply.found[1].txs_updated_at # reply.last_txs_updated_at )
    => /\ reply.kind = "hit" => reply.current_time - reply.found[1].time <= 3000
       /\ reply.current_time - reply.found[1].time > 3000 =>
              /\ reply.kind # "hit"
              /\ reply.build # None

\* A build, 3001 ms after the entry at the key was built for another pool watermark.
C17_Witness ==
    /\ reply.kind = "fresh"
    /\ reply.found # None
    /\ reply.found[1].txs_updated_at # reply.last_txs_updated_at
    /\ reply.found[1].uncles_updated_at = reply.last_uncles_updated_at
    /\ reply.current_time - reply.found[1].time = 3001

\* C18: once the shutdown token is in the signal channel the worker handles no
\* further request and no further uncle, whatever else is pending at its select.
C18_TokenStopsWorker == ~chan.late

\* C19: no request gets more than one reply; when the worker has exited at shutdown,
\* every request it had dequeued has its reply and none of the requests still
\* queued at the exit has one.
C19_RepliesAtShutdown ==
    /\ \A i, j \in 1..Len(chan.replies) : chan.replies[i] = chan.replies[j] => i = j
    /\ Range(chan.replies) \subseteq chan.dequeued
    /\ worker = "Stopped" =>
           /\ chan.dequeued \subseteq Range(chan.replies)
           /\ chan.discarded \cap Range(chan.replies) = {}
           /\ chan.discarded \cap chan.dequeued = {}
           /\ chan.requests = <<>>

\* The worker exited on the token, having answered a request while the token was in
\* the channel and leaving another request queued.
C19_Witness ==
    /\ worker = "Stopped"
    /\ chan.signal > 0
    /\ chan.late
    /\ chan.replies # <<>>
    /\ chan.discarded # {}

\* C20: with fair selection, no shutdown token and the uncle channel open, every
\* call enqueued is answered in the end with a template or an error.
C20_EveryCallAnswered ==
    \A id \in 1..MaxCalls :
        (id \in Ids(chan.requests))
            ~> (id \in Range(chan.replies) \/ chan.signal > 0 \/ ~chan.uncles_open)

\* Whether a block may be an uncle of the block built on tip t in epoch e: of the
\* epoch's number and difficulty, at depth 1..max_uncles_age below the block built,
\* and neither the tip, an ancestor the parent walk names, nor an uncle embedded in
\* a block the walk visits.
CanBeUncle(t, e, h) ==
    /\ BlockOf[h].epoch = e.number
    /\ BlockOf[h].difficulty = e.difficulty
    /\ 1 <= BlockOf[t].number + 1 - BlockOf[h].number
    /\ BlockOf[t].number + 1 - BlockOf[h].number <= max_uncles_age
    /\ h # t
    /\ \A k \in 1..max_uncles_age : h # ParentPow(t, k)
    /\ \A b \in Visited(t) : h \notin Range(BlockOf[b].uncles)

\* The positions of a candidate cache whose candidates may be uncles.
EligibleAt(cache, t, e) == {i \in 1..Len(cache) : CanBeUncle(t, e, cache[i].key)}

\* The hashes of the uncles of the template replied.
TemplateUncles == {Template.uncles[k].hash : k \in 1..Len(Template.uncles)}

\* C21: a fresh build includes in template.uncles every candidate of the cache that
\* is eligible at the tip and has fewer than max_uncles_num eligible candidates
\* before it in cache order; a single eligible candidate is the sole uncle.
C21_EligibleIncluded ==
    reply.kind = "fresh" =>
        Let(EligibleAt(reply.candidate_uncles_before, reply.tip, reply.build[1].epoch),
            LAMBDA eligible :
                /\ \A i \in eligible :
                       Cardinality({j \in eligible : j < i}) < max_uncles_num
                           => reply.candidate_uncles_before[i].key \in TemplateUncles
                /\ Cardinality(eligible) = 1 =>
                       /\ Len(Template.uncles) = 1
                       /\ \A i \in eligible :
                              Template.uncles[1].hash
                                  = reply.candidate_uncles_before[i].key)

\* A build whose sole uncle, at depth max_uncles_age, comes after a candidate that
\* is not eligible.
C21_Witness ==
    /\ reply.kind = "fresh"
    /\ Len(reply.candidate_uncles_before) = 2
    /\ EligibleAt(reply.candidate_uncles_before, reply.tip, reply.build[1].epoch) = {2}
    /\ Len(Template.uncles) = 1
    /\ BlockOf[reply.tip].number + 1 - BlockOf[Template.uncles[1].hash].number
           = max_uncles_age

\* C22: a request is answered from a cache entry only if the entry was built for
\* the same clamped triple (bytes_limit, proposals_limit, version).
C22_KeyHoldsProposalsLimit ==
    reply.kind = "hit" => <<ParseInt(Template.work_id), reply.limits>> \in hist.built

\* (tip.number + 1) - candidate.number, and 0 where the candidate is above that.
DepthBelow(t, h) == Max(0, BlockOf[t].number + 1 - BlockOf[h].number)

\* A candidate of the epoch's number and difficulty that is neither the tip, an
\* ancestor the parent walk names, nor an uncle embedded in a block the walk visits.
MatchesEpoch(t, e, h) ==
    /\ BlockOf[h].epoch = e.number
    /\ BlockOf[h].difficulty = e.difficulty
    /\ h # t
    /\ \A k \in 1..max_uncles_age : h # ParentPow(t, k)
    /\ \A b \in Visited(t) : h \notin Range(BlockOf[b].uncles)

\* The hashes prepare_uncles selected.
ProbeUncles == {probe.out.uncles[k].header.hash : k \in 1..Len(probe.out.uncles)}

\* The positions of the cache the selection loop comes to: those with fewer than
\* max_uncles_num eligible candidates before them.
Reached(cache, t, e) ==
    {i \in 1..Len(cache) :
        Cardinality({j \in EligibleAt(cache, t, e) : j < i}) < max_uncles_num}

\* C23, as stated: every candidate that matches the epoch and is not excluded is
\* selected at depth 1 and at depth max_uncles_age, and is classified bad at depth
\* 0 and at depth max_uncles_age + 1.
C23_DepthBounds ==
    probe.fn = "prepare_uncles" =>
        \A i \in 1..Len(candidate_uncles) :
            Let(candidate_uncles[i].key, LAMBDA h :
                MatchesEpoch(tip, probe.epoch, h) =>
                    /\ DepthBelow(tip, h) \in {1, max_uncles_age}
                           => h \in ProbeUncles
                    /\ DepthBelow(tip, h) \in {0, max_uncles_age + 1}
                           => h \in Range(probe.out.bad_uncles))

\* C23, amended: the same of every candidate the selection loop comes to before
\* max_uncles_num uncles are selected.
C23_DepthBoundsExamined ==
    probe.fn = "prepare_uncles" =>
        \A i \in Reached(candidate_uncles, tip, probe.epoch) :
            Let(candidate_uncles[i].key, LAMBDA h :
                MatchesEpoch(tip, probe.epoch, h) =>
                    /\ DepthBelow(tip, h) \in {1, max_uncles_age}
                           => h \in ProbeUncles
                    /\ DepthBelow(tip, h) \in {0, max_uncles_age + 1}
                           => h \in Range(probe.out.bad_uncles))

\* Three candidates of the epoch, none excluded: one above the tip and one at depth
\* max_uncles_age + 1, both bad, and one at depth max_uncles_age, selected.
C23_Witness ==
    /\ probe.fn = "prepare_uncles"
    /\ Len(candidate_uncles) = 3
    /\ \A i \in 1..3 : MatchesEpoch(tip, probe.epoch, candidate_uncles[i].key)
    /\ {DepthBelow(tip, candidate_uncles[i].key) : i \in 1..3}
           = {0, max_uncles_age, max_uncles_age + 1}
    /\ Len(probe.out.uncles) = 1
    /\ Len(probe.out.bad_uncles) = 2

\* The tips the chain may take after tip t: the blocks at its height or above.
LaterTips(t) == {b \in 1..(Len(BlockOf) - Siblings) :
                    BlockOf[b].number >= BlockOf[t].number}

\* C24: a candidate that a build classifies as bad may be an uncle on no later tip;
\* in particular it is not above the tip, nor of an epoch ahead of the build's.
C24_BadStaysBad ==
    reply.build # None =>
        \A h \in Range(reply.build[1].bad_uncles) :
            /\ \A t \in LaterTips(reply.tip) :
                   ~CanBeUncle(t, CurrentEpoch(HeaderOf(t)), h)
            /\ BlockOf[h].number <= BlockOf[reply.tip].number
            /\ BlockOf[h].epoch <= reply.build[1].epoch.number

\* C25: after a fresh build the candidate-uncle cache is the cache before the build
\* without the hashes classified bad, which are the examined candidates that may
\* not be uncles: no bad hash is left, and the selected and the unexamined
\* candidates stay, in their order. A build in an epoch returns no uncle of another
\* epoch and leaves no candidate of another epoch that it examined.
C25_CacheMinusBad ==
    reply.kind = "fresh" =>
        Let(reply.candidate_uncles_before, LAMBDA before :
        Let(reply.build[1].epoch, LAMBDA e :
        Let(Reached(before, reply.tip, e), LAMBDA reached :
        Let({before[i].key : i \in reached \ EligibleAt(before, reply.tip, e)},
            LAMBDA bad :
                /\ Range(reply.build[1].bad_uncles) = bad
                /\ candidate_uncles = SelectSeq(before, LAMBDA c : c.key \notin bad)
                /\ Keys(candidate_uncles) \cap bad = {}
                /\ TemplateUncles \subseteq Keys(candidate_uncles)
                /\ \A i \in (1..Len(before)) \ reached :
                       before[i].key \in Keys(candidate_uncles)
                /\ \A k \in 1..Len(Template.uncles) :
                       Template.uncles[k].header.epoch = e.number
                /\ \A i \in reached :
                       BlockOf[before[i].key].epoch # e.number
                           => before[i].key \notin Keys(candidate_uncles)))))

\* A build of the second epoch on a tip of that epoch: its uncle stays in the cache
\* and the candidate of the first epoch is gone.
C25_Witness ==
    /\ reply.kind = "fresh"
    /\ reply.build[1].epoch.number = 1
    /\ BlockOf[reply.tip].epoch = 1
    /\ Len(reply.candidate_uncles_before) = 2
    /\ Len(Template.uncles) = 1
    /\ Keys(candidate_uncles) = TemplateUncles
    /\ \E h \in Range(reply.build[1].bad_uncles) : BlockOf[h].epoch = 0

\* The hashes of the candidates at the positions S of a cache, in cache order.
HashesAt(cache, S) ==
    Let(SelectSeq([i \in 1..Len(cache) |-> <<i, cache[i].key>>],
                  LAMBDA p : p[1] \in S),
        LAMBDA at : [k \in 1..Len(at) |-> at[k][2]])

\* C26: prepare_uncles goes through the candidates in cache order and stops once
\* max_uncles_num uncles are selected: the uncles are the first max_uncles_num
\* eligible candidates in that order, the bad hashes are the ineligible candidates
\* before the stop, and a candidate after the stop is neither.
C26_FirstEligibleInOrder ==
    probe.fn = "prepare_uncles" =>
        Let(EligibleAt(candidate_uncles, tip, probe.epoch), LAMBDA eligible :
        Let(Reached(candidate_uncles, tip, probe.epoch), LAMBDA reached :
            /\ [k \in 1..Len(probe.out.uncles) |-> probe.out.uncles[k].header.hash]
                   = HashesAt(candidate_uncles, eligible \cap reached)
            /\ Cardinality(eligible \cap reached)
                   = Min(max_uncles_num, Cardinality(eligible))
            /\ probe.out.bad_uncles = HashesAt(candidate_uncles, reached \ eligible)
            /\ \A i \in (1..Len(candidate_uncles)) \ reached :
                   /\ candidate_uncles[i].key \notin ProbeUncles
                   /\ candidate_uncles[i].key \notin Range(probe.out.bad_uncles)))

\* Two uncles selected, and after them a candidate that is not eligible and is not
\* reported bad.
C26_Witness ==
    /\ probe.fn = "prepare_uncles"
    /\ Len(candidate_uncles) = 3
    /\ Len(probe.out.uncles) = max_uncles_num
    /\ ProbeUncles = {candidate_uncles[1].key, candidate_uncles[2].key}
    /\ ~CanBeUncle(tip, probe.epoch, candidate_uncles[3].key)
    /\ probe.out.bad_uncles = <<>>

\* C27: the worker, taking the notification of uncle b, leaves b -> block as the
\* most recent entry of the candidate-uncle cache and the wall clock in
\* last_uncles_updated_at: an uncle already there is moved and the cache does not
\* grow, a new one is added, and at MAX_CANDIDATE_UNCLES entries a new one drops
\* the least recent entry and no other.
C27_IngestInsertsOrBumps ==
    [][(chan.uncles # <<>> /\ chan'.uncles = Tail(chan.uncles)) =>
          LET b == Head(chan.uncles)
              entry == [key |-> b, val |-> b]
          IN  /\ last_uncles_updated_at' = clock
              /\ IF b \in Keys(candidate_uncles)
                 THEN /\ Len(candidate_uncles') = Len(candidate_uncles)
                      /\ candidate_uncles'
                             = Append(SelectSeq(candidate_uncles,
                                                LAMBDA c : c.key # b), entry)
                 ELSE IF Len(candidate_uncles) < 42
                 THEN candidate_uncles' = Append(candidate_uncles, entry)
                 ELSE /\ Len(candidate_uncles') = 42
                      /\ candidate_uncles' = Append(Tail(candidate_uncles), entry)
      ]_vars

\* A full cache after its oldest uncle was announced again and a new uncle came:
\* the oldest is kept, the second oldest is gone.
C27_Witness ==
    /\ Len(candidate_uncles) = 42
    /\ CacheUncles[1] \in Keys(candidate_uncles)
    /\ CacheUncles[2] \notin Keys(candidate_uncles)
    /\ candidate_uncles[42].key = CacheUncles[43]
    /\ candidate_uncles[41].key = CacheUncles[1]
    /\ last_uncles_updated_at = clock
    /\ clock > 2

\* C28: reading an entry of either cache makes it the most recent: after a cache
\* hit the entry read is the last of the template cache, and after a fresh build
\* the candidates it selected come after every candidate it did not examine.
C28_ReadsBump ==
    /\ reply.kind = "hit" =>
           template_caches[Len(template_caches)].key
               = <<max_block_cycles, reply.limits[1], reply.limits[3]>>
    /\ reply.kind = "fresh" =>
           \A i, j \in 1..Len(candidate_uncles) :
               (/\ candidate_uncles[i].key \in TemplateUncles
                /\ candidate_uncles[j].key \notin TemplateUncles) => j < i

\* C29: the worker takes the chain-state lock once per request; it does not hold it
\* where the cellbase is built, nor where it replies, nor after a panic, nor at
\* select!, and it holds it where the pool is read.
C29_LockDiscipline ==
    probe.fn = "get_block_template" =>
        /\ probe.pc = "locked" => probe.lock = "worker" /\ probe.acquired = 1
        /\ probe.pc = "cellbase" => probe.lock = "free" /\ probe.acquired = 1
        /\ probe.pc = "reply" => probe.lock = "free" /\ probe.acquired = 1
        /\ probe.pc = "unwound" => probe.lock = "free"
        /\ probe.pc = "select" => probe.lock = "free"

\* A template built while another thread, the lock being free, changed the pool.
C29_Witness ==
    /\ probe.fn = "get_block_template"
    /\ probe.pc = "reply"
    /\ probe.kind = "fresh"
    /\ probe.acquired = 1
    /\ pool # probe.chain[1].pool

\* C30: the template of a build is made of one chain state, the one at the time the
\* lock was taken: its parent, number, epoch, proposals and transactions, and the
\* txs_updated_at of its cache entry; and when the pool has changed between the
\* release of the lock and the caching of the template, the entry's txs_updated_at
\* differs from the pool's watermark.
C30_OneChainState ==
    (probe.fn = "get_block_template" /\ probe.pc = "reply" /\ probe.kind = "fresh") =>
        Let(probe.chain[1], LAMBDA chain :
        Let(probe.snap[1], LAMBDA snap :
        Let(probe.result.val, LAMBDA t :
        Let(EntryAt(template_caches, snap.cycles_limit, snap.bytes_limit,
                    snap.version)[1],
            LAMBDA entry :
                /\ t.parent_hash = chain.tip
                /\ t.number = to_string(BlockOf[chain.tip].number + 1)
                /\ t.epoch = to_string(CurrentEpoch(HeaderOf(chain.tip)).number)
                /\ t.proposals = get_proposals(chain.pool.proposals,
                                               snap.proposals_limit)
                /\ [i \in 1..Len(t.transactions) |-> t.transactions[i].hash]
                       = SubSeq(chain.pool.txs, 1, Len(t.transactions))
                /\ entry.txs_updated_at = chain.pool.updated_at
                /\ <<probe.cached[1].txs, probe.cached[1].proposals>>
                       # <<chain.pool.txs, chain.pool.proposals>>
                       => entry.txs_updated_at # probe.cached[1].updated_at))))

\* C31: while a request is between its dequeuing and its reply, the worker takes no
\* uncle and no other request, and the only changes of the caches and of the
\* counter are those of that request; the replies go out in the order of dequeuing.
C31_OneEventAtATime ==
    [][/\ probe.pc # "select" =>
              /\ chan'.dequeued = chan.dequeued
              /\ Len(chan'.uncles) >= Len(chan.uncles)
              /\ last_uncles_updated_at' = last_uncles_updated_at
              /\ probe'.pc # "select" => probe'.id = probe.id
              /\ probe.pc = "reply" =>
                     /\ candidate_uncles' = candidate_uncles
                     /\ template_caches' = template_caches
                     /\ work_id' = work_id
       /\ \A i, j \in 1..Len(chan'.replies) :
              i < j => chan'.replies[i] < chan'.replies[j]
       /\ Range(chan'.replies) \subseteq chan'.dequeued
      ]_vars

\* A second request in hand, after the reply to the first, while an uncle and a
\* third request wait in their channels.
C31_Witness ==
    /\ probe.pc = "cellbase"
    /\ chan.replies = <<1>>
    /\ probe.id = 2
    /\ chan.uncles # <<>>
    /\ chan.requests # <<>>

\* C32: a freshly built template carries max(second clock sample, tip timestamp + 1)
\* as current_time, its cache entry stores the same value as time, and the value
\* is greater than the tip's timestamp.
C32_FreshStampAfterCellbase ==
    reply.kind = "fresh" =>
        Let(EntryAt(template_caches, max_block_cycles,
                    Clamp(reply.args[1], max_block_bytes),
                    Clamp(reply.args[3], block_version)),
            LAMBDA e :
                /\ ParseInt(Template.current_time)
                       = Max(clock, BlockOf[reply.tip].timestamp + 1)
                /\ e # None
                /\ e[1].time = ParseInt(Template.current_time)
                /\ ParseInt(Template.current_time) > BlockOf[reply.tip].timestamp)

\* A fresh template whose second sample is later than the first and later than
\* the tip's timestamp.
C32_Witness ==
    /\ reply.kind = "fresh"
    /\ clock > reply.current_time
    /\ ParseInt(Template.current_time) = clock

\* C38: a request answered from the template cache leaves the candidate-uncle
\* cache, last_uncles_updated_at, work_id and every stored entry as they were, moves
\* only the entry it read to the most recent place, and returns the current_time
\* of the build that made the entry.
C38_HitChangesRecencyOnly ==
    reply.kind = "hit" =>
        Let(<<max_block_cycles, Clamp(reply.args[1], max_block_bytes),
              Clamp(reply.args[3], block_version)>>, LAMBDA key :
            /\ candidate_uncles = reply.candidate_uncles_before
            /\ last_uncles_updated_at = reply.last_uncles_updated_at
            /\ work_id = reply.work_before
            /\ Content(template_caches) = Content(reply.template_caches_before)
            /\ Len(template_caches) = Len(reply.template_caches_before)
            /\ Without(template_caches, key)
                   = Without(reply.template_caches_before, key)
            /\ template_caches[Len(template_caches)]
                   = [key |-> key, val |-> reply.found[1]]
            /\ Template = reply.found[1].template
            /\ Template.current_time = to_string(reply.found[1].time))

\* A hit later than the build of its entry, on an entry that was not the most
\* recent one, while the candidate-uncle cache is not empty.
C38_Witness ==
    /\ reply.kind = "hit"
    /\ reply.current_time > reply.found[1].time
    /\ template_caches # reply.template_caches_before
    /\ candidate_uncles # <<>>

\* The place of a transaction in the ordered pool slice.
PlaceOf(h) == CHOOSE i \in 1..Len(pool.txs) : pool.txs[i] = h

\* C33: a fee is computed from a same-batch transaction only when that transaction
\* stands earlier in the pool slice than the transaction that spends it: no input
\* that names a later transaction of the slice, or its own, resolves.
C33_FeeSeesPrefixOnly ==
    probe.fn = "fee" /\ probe.out.ok =>
        \A i \in 1..Len(TxOf(probe.tx).inputs) :
            Let(TxOf(probe.tx).inputs[i], LAMBDA input :
                input.cell # None /\ input.cell[1].tx_hash \in Range(pool.txs) =>
                    PlaceOf(input.cell[1].tx_hash) < PlaceOf(probe.tx))

\* Whether an input names a transaction of the batch.
InBatch(input) == input.cell # None /\ input.cell[1].tx_hash \in Range(pool.txs)

\* C34: an input that names a transaction of the batch takes its capacity from
\* that transaction's output and the provider is not asked for it, not even when
\* the index is past the last output, which is InvalidInput; the provider is asked
\* only for hashes absent from the batch. With A (output 50) and B spending it and
\* emitting 30 in one batch, fee(B) = 20 with no lookup in the chain store.
C34_BatchHitWithoutProvider ==
    probe.fn = "fee" =>
        Let(TxOf(probe.tx), LAMBDA tx :
            /\ probe.lookups \cap Range(pool.txs) = {}
            /\ probe.lookups \subseteq
                   {tx.inputs[i].cell[1].tx_hash :
                        i \in {k \in 1..Len(tx.inputs) : tx.inputs[k].cell # None}}
            /\ (\A i \in 1..Len(tx.inputs) : InBatch(tx.inputs[i])) =>
                   /\ probe.lookups = {}
                   /\ IF \E i \in 1..Len(tx.inputs) :
                             tx.inputs[i].cell[1].index
                                 >= Len(TxOf(tx.inputs[i].cell[1].tx_hash).outputs)
                      THEN probe.out = Err("InvalidInput")
                      ELSE SumSeq(tx.outputs) <= InputsTotal(tx, Len(tx.inputs))
                               /\ InputsTotal(tx, Len(tx.inputs)) <= MaxCapacity =>
                           probe.out = Ok(InputsTotal(tx, Len(tx.inputs))
                                          - SumSeq(tx.outputs))
            /\ probe.tx = 104 /\ 103 \in Range(pool.txs) =>
                   probe.out = Ok(20) /\ probe.lookups = {})

\* The fee of a transaction whose input names a transaction of the batch at an
\* index past its last output.
C34_Witness ==
    /\ probe.fn = "fee"
    /\ probe.tx = 108
    /\ 103 \in Range(pool.txs)
    /\ probe.out = Err("InvalidInput")
    /\ probe.lookups = {}

\* The fees of the batch, summed without a width.
ExactFees ==
    SumSeq([i \in 1..Len(pool.txs) |->
               InputsTotal(TxOf(pool.txs[i]), Len(TxOf(pool.txs[i]).inputs))
               - SumSeq(TxOf(pool.txs[i]).outputs)])

\* Whether every transaction of the batch has a fee within the width.
BatchPays ==
    \A i \in 1..Len(pool.txs) :
        /\ Pays(pool.txs, TxOf(pool.txs[i]))
        /\ InputsTotal(TxOf(pool.txs[i]), Len(TxOf(pool.txs[i]).inputs)) <= MaxCapacity

\* C35: the capacity sums are checked: a sum of inputs, a sum of outputs, a running
\* sum of fees or a reward plus fees beyond the width of a capacity is an error, and
\* a fee or a cellbase capacity that is returned is the exact sum, never the wrapped
\* one.
C35_CheckedCapacity ==
    /\ probe.fn = "fee" =>
           Let(TxOf(probe.tx), LAMBDA tx :
           Let(InputsTotal(tx, ResolvedPrefix(pool.txs, tx)), LAMBDA inputs :
               /\ inputs > MaxCapacity
                  \/ (AllResolve(pool.txs, tx) /\ SumSeq(tx.outputs) > MaxCapacity)
                      => probe.out = Err("Overflow")
               /\ probe.out.ok =>
                      /\ AllResolve(pool.txs, tx)
                      /\ probe.out.val = inputs - SumSeq(tx.outputs)))
    /\ probe.fn = "cellbase" =>
           Let(block_reward(CurrentEpoch(HeaderOf(tip)), BlockOf[tip].number + 1).val,
               LAMBDA reward :
               /\ BatchPays /\ ExactFees + reward > MaxCapacity =>
                      probe.out = Err("Overflow")
               /\ probe.out.ok =>
                      /\ BatchPays
                      /\ probe.out.val.outputs[1].capacity = reward + ExactFees
                      /\ reward + ExactFees <= MaxCapacity)

\* A cellbase refused because the reward and the fees together pass the width,
\* with the fees alone within it.
C35_Witness ==
    /\ probe.fn = "cellbase"
    /\ BatchPays
    /\ ExactFees <= MaxCapacity
    /\ probe.out = Err("Overflow")

\* C36: once the uncle channel or the request channel is closed the worker
\* terminates; it leaves its loop on its own only at a select with the token or
\* with a closed and drained channel; and a terminated worker handles nothing.
C36_ClosedChannelTerminates ==
    /\ (~chan.uncles_open \/ ~chan.requests_open) ~> (worker # "Running")
    /\ [][/\ worker = "Running" /\ worker' = "Stopped" =>
                 \/ chan.signal > 0
                 \/ ~chan.uncles_open /\ chan.uncles = <<>>
                 \/ ~chan.requests_open /\ chan.requests = <<>>
          /\ worker # "Running" =>
                 /\ worker' = worker
                 /\ candidate_uncles' = candidate_uncles
                 /\ last_uncles_updated_at' = last_uncles_updated_at
                 /\ template_caches' = template_caches
                 /\ work_id' = work_id
                 /\ chan'.replies = chan.replies
                 /\ chan'.dequeued = chan.dequeued
         ]_vars

\* The worker stopped on the closing of the uncle channel, no token sent and the
\* request channel open, after it had answered a request.
C36_Witness ==
    /\ worker = "Stopped"
    /\ ~chan.uncles_open
    /\ chan.signal = 0
    /\ chan.requests_open
    /\ chan.replies # <<>>

\* C37: an uncle that is in the notification channel before a request is enqueued
\* is ingested before the request is served, and the reply carries it: with the
\* uncle notified before any call, every request answered found it in the
\* candidate-uncle cache and every fresh template names it.
C37_UncleBeforeRequest ==
    Answered =>
        /\ 3 \in Keys(reply.candidate_uncles_before)
        /\ reply.kind = "fresh" => 3 \in TemplateUncles

\* C9: a fresh build returns a work_id above that of every earlier fresh build; a
\* failed build and a cache hit leave the counter alone.
C9_FreshWorkIdIncreases ==
    /\ reply.kind = "fresh" => ParseInt(Template.work_id) > reply.fresh_before
    /\ reply.kind \in {"hit", "error"} => reply.work_after = reply.work_before

\* A third fresh build.
C9_Witness == reply.kind = "fresh" /\ reply.fresh_before >= 1

\* C10, as stated: no Ok reply carries a work_id below that of an earlier Ok reply.
C10_RepliesMonotone ==
    Answered => ParseInt(Template.work_id) >= reply.replied_before

\* C10, amended: no Ok reply carries a work_id below that of an earlier Ok reply to
\* a request of the same cache key.
C10_RepliesMonotoneAtKey ==
    Answered => ParseInt(Template.work_id) >= reply.replied_at_key_before

\* A hit at a key answered before, after a later build at another key.
C10_Witness ==
    /\ reply.kind = "hit"
    /\ reply.replied_at_key_before >= 0
    /\ reply.replied_before > reply.replied_at_key_before

====
